---- MODULE Spec2Model ----
(***************************************************************************)
(* Model of the Component Instrumentation Engine of                        *)
(* react-native-cursor-profiler: the Component Transformer                 *)
(* (src/src/componentWrapper.ts, class ComponentWrapper) and the Component *)
(* Detector (ComponentTreeProvider.extractComponentsWithAST).              *)
(*                                                                         *)
(* A source file is modelled by the sequence of its top-level statements,  *)
(* each a record shaped like the Babel AST node the code inspects (field   *)
(* names are Babel's).  Strings whose characters the code inspects         *)
(* (identifier names, module specifiers) are sequences of one-character    *)
(* strings.                                                                *)
(***************************************************************************)
EXTENDS Integers, Sequences, FiniteSets, TLC

\* Longest file (in top-level statements) that Init puts on disk.
MaxStmts == 2
\* Number of wrapComponent calls that may be awaiting wrapComponentWithAST.
MaxInFlight == 1
\* Largest number of component paths in one wrapComponents call.
MaxBatch == 3
\* Largest number of logs one ProfilerServer holds.
MaxLogs == 2
\* Largest number of ProfilerServer objects the extension constructs.
MaxServers == 2
\* Largest number of commands of the extension that are awaiting at once.
MaxCommands == 2
\* Largest number of profile logs the app posts.
MaxPosted == 3

\* The most wrapComponent calls in flight together on a project.
MaxCalls == 2

\* The 'ready' messages a webview posts.
MaxReady == 2

(***************************************************************************)
(* Strings                                                                 *)
(***************************************************************************)
UpperOf ==
  [a |-> "A", b |-> "B", c |-> "C", d |-> "D", e |-> "E", f |-> "F", g |-> "G",
   h |-> "H", i |-> "I", j |-> "J", k |-> "K", l |-> "L", m |-> "M", n |-> "N",
   o |-> "O", p |-> "P", q |-> "Q", r |-> "R", s |-> "S", t |-> "T", u |-> "U",
   v |-> "V", w |-> "W", x |-> "X", y |-> "Y", z |-> "Z"]

\* String.prototype.toUpperCase on a single character.
toUpperCase(ch) == IF ch \in DOMAIN UpperOf THEN UpperOf[ch] ELSE ch

\* String.prototype.includes
includes(str, sub) ==
  \E i \in 0..(Len(str) - Len(sub)) : SubSeq(str, i + 1, i + Len(sub)) = sub

\* String.prototype.startsWith
startsWith(str, pre) ==
  Len(str) >= Len(pre) /\ SubSeq(str, 1, Len(pre)) = pre

\* String.prototype.endsWith
endsWith(str, suf) ==
  Len(str) >= Len(suf) /\ SubSeq(str, Len(str) - Len(suf) + 1, Len(str)) = suf

RECURSIVE join(_, _)
\* Array.prototype.join
join(parts, sep) ==
  IF parts = <<>> THEN <<>>
  ELSE IF Len(parts) = 1 THEN parts[1]
  ELSE parts[1] \o sep \o join(Tail(parts), sep)

\* String.prototype.toLowerCase on a single character.
toLowerCase(ch) ==
  IF \E low \in DOMAIN UpperOf : UpperOf[low] = ch
    THEN CHOOSE low \in DOMAIN UpperOf : UpperOf[low] = ch
    ELSE ch

RECURSIVE split(_, _)
\* String.prototype.split with a non-empty separator
split(str, sep) ==
  LET hits == {i \in 1..(Len(str) - Len(sep) + 1) : SubSeq(str, i, i + Len(sep) - 1) = sep}
  IN  IF hits = {} THEN <<str>>
      ELSE LET first == CHOOSE i \in hits : \A j \in hits : i <= j
           IN  <<SubSeq(str, 1, first - 1)>>
               \o split(SubSeq(str, first + Len(sep), Len(str)), sep)

RECURSIVE trim(_)
\* String.prototype.trim
trim(str) ==
  IF str = <<>> THEN str
  ELSE IF Head(str) = " " THEN trim(Tail(str))
  ELSE IF str[Len(str)] = " " THEN trim(SubSeq(str, 1, Len(str) - 1))
  ELSE str

\* The identifier the transformer wraps with and looks for.
withProfilerName == <<"w", "i", "t", "h", "P", "r", "o", "f", "i", "l", "e", "r">>

(***************************************************************************)
(* AST nodes (Babel node types)                                            *)
(***************************************************************************)
Null == [type |-> "Null"]

Identifier(name) == [type |-> "Identifier", name |-> name]
StringLiteral(value) == [type |-> "StringLiteral", value |-> value]
NumericLiteral == [type |-> "NumericLiteral"]
JSXElement == [type |-> "JSXElement"]
MemberExpression(object, property) ==
  [type |-> "MemberExpression", object |-> object, property |-> property]
CallExpression(callee, arguments) ==
  [type |-> "CallExpression", callee |-> callee, arguments |-> arguments]
ReturnStatement(argument) == [type |-> "ReturnStatement", argument |-> argument]
BlockStatement(stmts) == [type |-> "BlockStatement", body |-> stmts]
ArrowFunctionExpression(body) ==
  [type |-> "ArrowFunctionExpression", params |-> <<>>, body |-> body]
FunctionExpression(body) ==
  [type |-> "FunctionExpression", id |-> Null, params |-> <<>>, body |-> body]
\* t.functionDeclaration(id, params, body, generator, async): the builder sets
\* these five fields only; a parsed declaration may also carry a returnType.
functionDeclaration(id, params, body, generator, async) ==
  [type |-> "FunctionDeclaration", id |-> id, params |-> params, body |-> body,
   generator |-> generator, async |-> async, returnType |-> Null]
ParsedFunction(id, body, returnType) ==
  [type |-> "FunctionDeclaration", id |-> id, params |-> <<>>, body |-> body,
   generator |-> FALSE, async |-> FALSE, returnType |-> returnType]
ClassMethod(key) == [type |-> "ClassMethod", key |-> key]
ClassDeclaration(id, superClass, methods) ==
  [type |-> "ClassDeclaration", id |-> id, superClass |-> superClass,
   body |-> [type |-> "ClassBody", body |-> methods]]
VariableDeclarator(id, init) ==
  [type |-> "VariableDeclarator", id |-> id, init |-> init]
VariableDeclaration(kind, declarations) ==
  [type |-> "VariableDeclaration", kind |-> kind, declarations |-> declarations]
TSTypeAliasDeclaration(id) == [type |-> "TSTypeAliasDeclaration", id |-> id]
ExpressionStatement(expression) ==
  [type |-> "ExpressionStatement", expression |-> expression]
ImportSpecifier(local, imported) ==
  [type |-> "ImportSpecifier", local |-> local, imported |-> imported]
importDeclaration(specifiers, source) ==
  [type |-> "ImportDeclaration", specifiers |-> specifiers, source |-> source]
ExportDefaultDeclaration(declaration) ==
  [type |-> "ExportDefaultDeclaration", declaration |-> declaration]
ExportNamedDeclaration(exportKind, declaration) ==
  [type |-> "ExportNamedDeclaration", exportKind |-> exportKind,
   declaration |-> declaration]
\* Text that @babel/parser cannot parse, even with errorRecovery.
SyntaxError == [type |-> "SyntaxError"]

\* @babel/types predicates
isType(node, ty) == node.type = ty

isIdentifier(node) == isType(node, "Identifier")
isCallExpression(node) == isType(node, "CallExpression")
isMemberExpression(node) == isType(node, "MemberExpression")
isFunctionDeclaration(node) == isType(node, "FunctionDeclaration")
isClassDeclaration(node) == isType(node, "ClassDeclaration")
isVariableDeclaration(node) == isType(node, "VariableDeclaration")
isArrowFunctionExpression(node) == isType(node, "ArrowFunctionExpression")
isFunctionExpression(node) == isType(node, "FunctionExpression")
isBlockStatement(node) == isType(node, "BlockStatement")
isJSXElement(node) == isType(node, "JSXElement")

(***************************************************************************)
(* Arrays                                                                  *)
(***************************************************************************)
\* Array.prototype.splice(start, deleteCount, item), start counted from 0.
splice(arr, start, deleteCount, item) ==
  LET at == IF start > Len(arr) THEN Len(arr) ELSE start
      last == IF at + deleteCount > Len(arr) THEN Len(arr) ELSE at + deleteCount
  IN  SubSeq(arr, 1, at) \o <<item>> \o SubSeq(arr, last + 1, Len(arr))

\* arr[index] = item, index counted from 0.
replaceAt(arr, index, item) == [arr EXCEPT ![index + 1] = item]

RECURSIVE flatten(_)
flatten(seqs) == IF seqs = <<>> THEN <<>> ELSE Head(seqs) \o flatten(Tail(seqs))

(***************************************************************************)
(* @babel/parser and @babel/generator                                      *)
(*                                                                         *)
(* The text of a file is represented by the statement list its parse       *)
(* yields and by its layout: "source" for text as its author formatted it, *)
(* "babel" for text printed by @babel/generator.  parse fails on text that *)
(* is no module.                                                           *)
(***************************************************************************)
Text(stmts, layout) == [stmts |-> stmts, layout |-> layout]

\* The bindings a top-level statement declares in the module scope.
declaredNames(stmt) ==
  LET declOf(node) ==
        IF (isFunctionDeclaration(node) \/ isClassDeclaration(node)) /\ node.id # Null
          THEN <<node.id.name>>
        ELSE IF isVariableDeclaration(node)
          THEN [k \in 1..Len(node.declarations) |-> node.declarations[k].id.name]
        ELSE <<>>
  IN  IF isType(stmt, "ImportDeclaration")
        THEN [k \in 1..Len(stmt.specifiers) |-> stmt.specifiers[k].local.name]
      ELSE IF isType(stmt, "ExportNamedDeclaration") \/ isType(stmt, "ExportDefaultDeclaration")
        THEN declOf(stmt.declaration)
      ELSE declOf(stmt)

\* All module-scope bindings of a statement list, in order, with repetitions.
moduleBindings(code) == flatten([k \in 1..Len(code) |-> declaredNames(code[k])])

hasRedeclaration(code) ==
  LET names == moduleBindings(code)
  IN  \E a, b \in 1..Len(names) : a < b /\ names[a] = names[b]

hasSeveralDefaultExports(code) ==
  Cardinality({k \in 1..Len(code) : isType(code[k], "ExportDefaultDeclaration")}) > 1

\* The text of a statement is no program: the statement as a whole, or the
\* initializer of an exported declarator.
hasSyntaxError(code) ==
  \E k \in 1..Len(code) :
    \/ code[k] = SyntaxError
    \/ /\ isType(code[k], "ExportNamedDeclaration")
       /\ isVariableDeclaration(code[k].declaration)
       /\ \E d \in 1..Len(code[k].declaration.declarations) :
            code[k].declaration.declarations[d].init = SyntaxError

\* parse(code, {sourceType: "module", ...}) of the transformer: without
\* errorRecovery the parser throws on a syntax error and on the early errors
\* of a module (redeclared identifier, second default export).
parse(code) ==
  [threw |-> \/ hasSyntaxError(code.stmts)
             \/ hasRedeclaration(code.stmts)
             \/ hasSeveralDefaultExports(code.stmts),
   body |-> code.stmts]

\* parse(content, {..., errorRecovery: true}) of the detector: early errors are
\* recorded, not thrown; text that is no program still throws.
parseRecovering(code) == [threw |-> hasSyntaxError(code.stmts), body |-> code.stmts]

\* generate(ast, {retainLines: true, ...}, code).code
generate(body) == Text(body, "babel")

\* string | null
None == [some |-> FALSE, code |-> Text(<<>>, "babel")]
Some(code) == [some |-> TRUE, code |-> code]

(***************************************************************************)
(* ComponentWrapper (src/src/componentWrapper.ts)                          *)
(***************************************************************************)
\* isAlreadyWrapped(node)
isAlreadyWrapped(node) ==
  IF node = Null THEN FALSE
  ELSE /\ isCallExpression(node)
       /\ isIdentifier(node.callee)
       /\ node.callee.name = withProfilerName

decoratingHelpers ==
  {<<"m", "e", "m", "o">>,
   <<"f", "o", "r", "w", "a", "r", "d", "R", "e", "f">>,
   <<"l", "a", "z", "y">>}

\* isLikelyComponent(node)
isLikelyComponent(node) ==
  IF node = Null THEN FALSE
  ELSE IF isArrowFunctionExpression(node) THEN TRUE
  ELSE IF isFunctionExpression(node) THEN TRUE
  ELSE IF isCallExpression(node)
    THEN \/ isIdentifier(node.callee) /\ node.callee.name \in decoratingHelpers
         \/ /\ isMemberExpression(node.callee)
            /\ isIdentifier(node.callee.property)
            /\ node.callee.property.name \in decoratingHelpers
  ELSE FALSE

\* withProfiler(<component>, '<name>')
wrappedCallOf(component, name) ==
  CallExpression(Identifier(withProfilerName), <<component, StringLiteral(name)>>)

\* First pass, ImportDeclaration visitor: is withProfiler already imported?
hasWithProfilerImport(body) ==
  \E k \in 1..Len(body) :
    /\ isType(body[k], "ImportDeclaration")
    /\ includes(body[k].source.value, withProfilerName)

RECURSIVE lastImportFrom(_, _, _)
\* First pass, ImportDeclaration visitor: importInsertionIndex starts at 0 and
\* is raised to the body index (counted from 0) of every later import.
lastImportFrom(body, k, importInsertionIndex) ==
  IF k > Len(body) THEN importInsertionIndex
  ELSE LET bodyIndex == k - 1
       IN  lastImportFrom(body, k + 1,
             IF isType(body[k], "ImportDeclaration") /\ bodyIndex > importInsertionIndex
               THEN bodyIndex ELSE importInsertionIndex)

importInsertionIndexOf(body) == lastImportFrom(body, 1, 0)

\* Second pass, ExportDefaultDeclaration visitor: the identifier to wrap, or Null.
defaultTarget(declaration, componentName) ==
  IF isFunctionDeclaration(declaration) /\ declaration.id # Null
    THEN IF declaration.id.name = componentName THEN declaration.id ELSE Null
  ELSE IF isVariableDeclaration(declaration)
    THEN IF /\ Len(declaration.declarations) > 0
            /\ isIdentifier(declaration.declarations[1].id)
            /\ declaration.declarations[1].id.name = componentName
           THEN declaration.declarations[1].id ELSE Null
  ELSE IF isIdentifier(declaration)
    THEN IF declaration.name = componentName THEN declaration ELSE Null
  ELSE IF isClassDeclaration(declaration) /\ declaration.id # Null
    THEN IF declaration.id.name = componentName THEN declaration.id ELSE Null
  ELSE Null

\* Second pass, ExportDefaultDeclaration visitor on body[index].
visitExportDefault(body, index, componentName) ==
  LET node == body[index + 1]
      declaration == node.declaration
      targetComponent == defaultTarget(declaration, componentName)
  IN  IF isAlreadyWrapped(declaration) \/ targetComponent = Null
        THEN [body |-> body, wrapped |-> 0, visited |-> 1]
        ELSE [body |-> replaceAt(body, index,
                         [node EXCEPT !.declaration =
                            wrappedCallOf(targetComponent, targetComponent.name)]),
              wrapped |-> 1, visited |-> 1]

\* Mutant of wrapsDeclarator: the loop wraps on the name alone, without the
\* isLikelyComponent and isAlreadyWrapped guards.
wrapsDeclaratorUnguarded(declarator, componentName) ==
  /\ isIdentifier(declarator.id)
  /\ declarator.id.name = componentName
  /\ declarator.init # Null

\* Does the loop over the declarators wrap this declarator?
wrapsDeclarator(declarator, componentName) ==
  /\ isIdentifier(declarator.id)
  /\ declarator.id.name = componentName
  /\ isLikelyComponent(declarator.init)
  /\ ~isAlreadyWrapped(declarator.init)
  /\ declarator.init # Null

\* Second pass, ExportNamedDeclaration visitor, `export const Name = ...`.
visitExportedVariable(body, index, componentName) ==
  LET node == body[index + 1]
      declarations == node.declaration.declarations
      hit == {k \in 1..Len(declarations) : wrapsDeclarator(declarations[k], componentName)}
      rewritten ==
        [k \in 1..Len(declarations) |->
           IF k \in hit
             THEN [declarations[k] EXCEPT !.init = wrappedCallOf(@, componentName)]
             ELSE declarations[k]]
  IN  [body |-> replaceAt(body, index, [node EXCEPT !.declaration.declarations = rewritten]),
       wrapped |-> Cardinality(hit), visited |-> 1]

\* export const Name = withProfiler(Name, 'Name');
wrappedExportOf(componentName) ==
  ExportNamedDeclaration("value",
    VariableDeclaration("const",
      <<VariableDeclarator(Identifier(componentName),
                           wrappedCallOf(Identifier(componentName), componentName))>>))

\* Mutant of demoteAndAppend: splice(currentIndex + 1, 1, wrappedExport), which
\* overwrites the statement after the function.
demoteAndOverwrite(body, currentIndex, functionDecl, wrappedExport) ==
  splice(replaceAt(body, currentIndex, functionDecl), currentIndex + 1, 1, wrappedExport)

\* path.replaceWith(functionDecl); body.splice(currentIndex + 1, 0, wrappedExport)
demoteAndAppend(body, currentIndex, functionDecl, wrappedExport) ==
  splice(replaceAt(body, currentIndex, functionDecl), currentIndex + 1, 0, wrappedExport)

\* Second pass, ExportNamedDeclaration visitor, `export function Name() {}`.
\* The spliced statement has no path in the traversal queue: it is skipped.
visitExportedFunction(body, index, componentName) ==
  LET declaration == body[index + 1].declaration
      functionDecl == functionDeclaration(declaration.id, declaration.params,
                        declaration.body, declaration.generator, declaration.async)
  IN  IF declaration.id.name = componentName /\ ~isAlreadyWrapped(declaration)
        THEN [body |-> demoteAndAppend(body, index, functionDecl,
                                       wrappedExportOf(componentName)),
              wrapped |-> 1, visited |-> 2]
        ELSE [body |-> body, wrapped |-> 0, visited |-> 1]

\* Second pass: the visitor that runs on the statement at body[index].
visitStatement(body, index, componentName) ==
  LET node == body[index + 1]
      skip == [body |-> body, wrapped |-> 0, visited |-> 1]
  IN  IF isType(node, "ExportDefaultDeclaration")
        THEN visitExportDefault(body, index, componentName)
      ELSE IF isType(node, "ExportNamedDeclaration")
        THEN IF node.exportKind = "type" THEN skip
             ELSE IF isVariableDeclaration(node.declaration)
               THEN visitExportedVariable(body, index, componentName)
             ELSE IF isFunctionDeclaration(node.declaration) /\ node.declaration.id # Null
               THEN visitExportedFunction(body, index, componentName)
             ELSE skip
      ELSE skip

RECURSIVE secondPass(_, _, _, _)
\* Second pass: traverse(ast, {ExportDefaultDeclaration, ExportNamedDeclaration})
\* over the top-level statements, in order, mutating the body in place.
secondPass(body, index, wrappedCount, componentName) ==
  IF index >= Len(body) THEN [body |-> body, wrappedCount |-> wrappedCount]
  ELSE LET r == visitStatement(body, index, componentName)
       IN  secondPass(r.body, index + r.visited, wrappedCount + r.wrapped, componentName)

\* import { withProfiler } from '<withProfilerImportPath>';
withProfilerImportOf(importPath) ==
  importDeclaration(
    <<ImportSpecifier(Identifier(withProfilerName), Identifier(withProfilerName))>>,
    StringLiteral(importPath))

\* "Add import if needed": where the new import lands in the body.
addImport(body, importInsertionIndex, imp) ==
  IF importInsertionIndex >= 0 /\ Len(body) > 0
    THEN splice(body, importInsertionIndex + 1, 0, imp)
    ELSE <<imp>> \o body

\* Mutant of wrapComponentWithAST: the `if (wrappedCount > 0)` test around
\* generate is missing, so the text is printed whether or not anything was
\* wrapped.
wrapComponentWithASTAlwaysPrinting(code, componentName, importPath) ==
  LET ast == parse(code)
      second == secondPass(ast.body, 0, 0, componentName)
  IN  IF ast.threw THEN [result |-> None, wrappedCount |-> 0, threw |-> TRUE]
      ELSE [result |-> Some(generate(second.body)),
            wrappedCount |-> second.wrappedCount, threw |-> FALSE]

\* wrapComponentWithAST(code, componentName, filePath), reading the instance
\* field withProfilerImportPath; the result carries wrappedCount with the text.
wrapComponentWithAST(code, componentName, importPath) ==
  LET ast == parse(code)
      hasImport == hasWithProfilerImport(ast.body)
      importInsertionIndex == importInsertionIndexOf(ast.body)
      second == secondPass(ast.body, 0, 0, componentName)
      withImport ==
        IF second.wrappedCount > 0 /\ ~hasImport
          THEN addImport(second.body, importInsertionIndex, withProfilerImportOf(importPath))
          ELSE second.body
  IN  IF ast.threw THEN [result |-> None, wrappedCount |-> 0, threw |-> TRUE]
      ELSE IF second.wrappedCount > 0
        THEN [result |-> Some(generate(withImport)),
              wrappedCount |-> second.wrappedCount, threw |-> FALSE]
      ELSE [result |-> None, wrappedCount |-> 0, threw |-> FALSE]

(***************************************************************************)
(* Import-path resolution (wrapComponent, lines 180-191)                   *)
(*                                                                         *)
(* A directory is a sequence of segments; a file path is a directory       *)
(* followed by the file name.                                              *)
(***************************************************************************)
RECURSIVE commonLength(_, _)
commonLength(a, b) ==
  IF a = <<>> \/ b = <<>> \/ Head(a) # Head(b) THEN 0
  ELSE 1 + commonLength(Tail(a), Tail(b))

\* path.relative(from, to) on POSIX paths
pathRelative(from, to) ==
  LET common == commonLength(from, to)
      up == [k \in 1..(Len(from) - common) |-> <<".", ".">>]
  IN  join(up \o SubSeq(to, common + 1, Len(to)), <<"/">>)

sourceExtensions ==
  <<<<".", "t", "s", "x">>, <<".", "t", "s">>, <<".", "j", "s", "x">>, <<".", "j", "s">>>>

\* str.replace(/\.(tsx|ts|jsx|js)$/, "")
stripSourceExtension(str) ==
  LET hits == {k \in 1..Len(sourceExtensions) : endsWith(str, sourceExtensions[k])}
  IN  IF hits = {} THEN str
      ELSE LET k == CHOOSE x \in hits : \A y \in hits : x <= y
           IN  SubSeq(str, 1, Len(str) - Len(sourceExtensions[k]))

\* str.replace(/\\/g, "/")
slashes(str) == [k \in 1..Len(str) |-> IF str[k] = "\\" THEN "/" ELSE str[k]]

\* The value wrapComponent stores in this.withProfilerImportPath.
importPathFor(componentFileDir, withProfilerPath) ==
  LET relativePath == pathRelative(componentFileDir, withProfilerPath)
      stripped == slashes(stripSourceExtension(relativePath))
  IN  IF ~startsWith(stripped, <<".">>) THEN <<".", "/">> \o stripped ELSE stripped

(***************************************************************************)
(* ComponentTreeProvider: the detector                                     *)
(***************************************************************************)
\* name[0] === name[0].toUpperCase(), for a non-empty name
startsUpperCase(name) == name # <<>> /\ name[1] = toUpperCase(name[1])

\* The child nodes @babel/traverse descends into.
childrenOf(node) ==
  IF isBlockStatement(node) THEN node.body
  ELSE IF isType(node, "ReturnStatement")
    THEN IF node.argument = Null THEN <<>> ELSE <<node.argument>>
  ELSE IF isVariableDeclaration(node) THEN node.declarations
  ELSE IF isType(node, "VariableDeclarator")
    THEN IF node.init = Null THEN <<>> ELSE <<node.init>>
  ELSE IF isFunctionDeclaration(node) \/ isFunctionExpression(node)
          \/ isArrowFunctionExpression(node)
    THEN <<node.body>>
  ELSE IF isCallExpression(node) THEN <<node.callee>> \o node.arguments
  ELSE IF isMemberExpression(node) THEN <<node.object, node.property>>
  ELSE IF isType(node, "ExpressionStatement") THEN <<node.expression>>
  ELSE <<>>

RECURSIVE traversal(_)
\* The nodes traverse(node, ...) visits, in order; nested functions included.
traversal(node) ==
  LET kids == childrenOf(node)
  IN  <<node>> \o flatten([k \in 1..Len(kids) |-> traversal(kids[k])])

\* hasJSXElement(node)
hasJSXElement(node) ==
  IF node = Null THEN FALSE
  ELSE IF isJSXElement(node) \/ isType(node, "JSXFragment") THEN TRUE
  ELSE IF isCallExpression(node) THEN TRUE
  ELSE FALSE

\* The ReturnStatement visitor of the body scans: some return yields markup.
returnsJSX(block) ==
  LET nodes == traversal(block)
  IN  \E k \in 1..Len(nodes) :
        isType(nodes[k], "ReturnStatement") /\ hasJSXElement(nodes[k].argument)

\* The JSXElement / JSXFragment visitors of the body scans.
containsJSX(block) ==
  LET nodes == traversal(block)
  IN  \E k \in 1..Len(nodes) : isJSXElement(nodes[k]) \/ isType(nodes[k], "JSXFragment")

\* isReactComponent(name, func)
isReactComponent(name, func) ==
  IF ~startsUpperCase(name) THEN FALSE
  ELSE IF func.body # Null /\ isBlockStatement(func.body)
    THEN LET nodes == traversal(func.body)
             hasReturn == \E k \in 1..Len(nodes) : isType(nodes[k], "ReturnStatement")
             hasJSX ==
               \/ returnsJSX(func.body)
               \/ containsJSX(func.body)
               \/ \E k \in 1..Len(nodes) :
                    isType(nodes[k], "VariableDeclarator") /\ hasJSXElement(nodes[k].init)
         IN  IF hasJSX THEN TRUE
             ELSE IF hasReturn THEN TRUE
             ELSE TRUE
  ELSE FALSE

baseComponents ==
  {<<"C", "o", "m", "p", "o", "n", "e", "n", "t">>,
   <<"P", "u", "r", "e", "C", "o", "m", "p", "o", "n", "e", "n", "t">>}

\* isReactClassComponent(classDecl)
isReactClassComponent(classDecl) ==
  IF classDecl.id = Null \/ ~startsUpperCase(classDecl.id.name) THEN FALSE
  ELSE \/ /\ classDecl.superClass # Null
          /\ \/ /\ isIdentifier(classDecl.superClass)
                /\ classDecl.superClass.name \in baseComponents
             \/ /\ isMemberExpression(classDecl.superClass)
                /\ isIdentifier(classDecl.superClass.object)
                /\ classDecl.superClass.object.name = <<"R", "e", "a", "c", "t">>
                /\ isIdentifier(classDecl.superClass.property)
                /\ classDecl.superClass.property.name \in baseComponents
       \/ \E k \in 1..Len(classDecl.body.body) :
            /\ isType(classDecl.body.body[k], "ClassMethod")
            /\ isIdentifier(classDecl.body.body[k].key)
            /\ classDecl.body.body[k].key.name = <<"r", "e", "n", "d", "e", "r">>

\* isComponentVariable(init, name)
isComponentVariable(init, name) ==
  IF init = Null \/ ~startsUpperCase(name) THEN FALSE
  ELSE IF isArrowFunctionExpression(init) \/ isFunctionExpression(init)
    THEN IF isArrowFunctionExpression(init)
                /\ (isJSXElement(init.body) \/ isType(init.body, "JSXFragment"))
           THEN TRUE
         ELSE IF isArrowFunctionExpression(init) /\ isBlockStatement(init.body)
           THEN returnsJSX(init.body)
         ELSE TRUE
  ELSE IF isCallExpression(init)
    THEN IF isIdentifier(init.callee)
           THEN init.callee.name \in decoratingHelpers
         ELSE /\ isMemberExpression(init.callee)
              /\ isIdentifier(init.callee.property)
              /\ init.callee.property.name \in decoratingHelpers
  ELSE FALSE

\* isComponentExpression(node)
isComponentExpression(node) ==
  IF isArrowFunctionExpression(node)
       /\ (isJSXElement(node.body) \/ isType(node.body, "JSXFragment"))
    THEN TRUE
  ELSE IF isBlockStatement(node.body)
    THEN returnsJSX(node.body) \/ containsJSX(node.body)
  ELSE FALSE

\* path.extname(fileName)
extname(fileName) ==
  LET dots == {k \in 2..Len(fileName) : fileName[k] = "."}
  IN  IF dots = {} THEN <<>>
      ELSE SubSeq(fileName, CHOOSE x \in dots : \A y \in dots : y <= x, Len(fileName))

\* path.basename(fileName, ext)
basename(fileName, ext) ==
  IF ext # <<>> /\ fileName # ext /\ endsWith(fileName, ext)
    THEN SubSeq(fileName, 1, Len(fileName) - Len(ext))
    ELSE fileName

RECURSIVE dropLeadingUnderscores(_)
\* str.replace(/^_+/, "")
dropLeadingUnderscores(str) ==
  IF str # <<>> /\ Head(str) = "_" THEN dropLeadingUnderscores(Tail(str)) ELSE str

\* str.replace(/^[a-z]/, (char) => char.toUpperCase())
capitalizeFirst(str) ==
  IF str # <<>> /\ Head(str) \in DOMAIN UpperOf
    THEN <<toUpperCase(Head(str))>> \o Tail(str)
    ELSE str

\* The name given to an anonymous default export (lines 275-289).
nameFromFile(fileName) ==
  LET baseName == basename(fileName, extname(fileName))
      componentName == capitalizeFirst(dropLeadingUnderscores(baseName))
  IN  IF componentName = <<>>
        THEN <<"C", "o", "m", "p", "o", "n", "e", "n", "t">>
        ELSE componentName

\* The names one top-level statement adds to the components Set, in order.
componentsOf(node, fileName) ==
  LET declaration == node.declaration
  IN  IF isType(node, "ExportDefaultDeclaration")
        THEN IF isFunctionDeclaration(declaration) /\ declaration.id # Null
               THEN IF isReactComponent(declaration.id.name, declaration)
                      THEN <<declaration.id.name>> ELSE <<>>
             ELSE IF isClassDeclaration(declaration) /\ declaration.id # Null
               THEN IF isReactClassComponent(declaration)
                      THEN <<declaration.id.name>> ELSE <<>>
             ELSE IF isIdentifier(declaration) THEN <<declaration.name>>
             ELSE IF isArrowFunctionExpression(declaration)
                     \/ isFunctionExpression(declaration)
               THEN IF isComponentExpression(declaration)
                      THEN <<nameFromFile(fileName)>> ELSE <<>>
             ELSE <<>>
      ELSE IF isType(node, "ExportNamedDeclaration")
        THEN IF node.exportKind = "type" THEN <<>>
             ELSE IF isFunctionDeclaration(declaration) /\ declaration.id # Null
               THEN IF isReactComponent(declaration.id.name, declaration)
                      THEN <<declaration.id.name>> ELSE <<>>
             ELSE IF isClassDeclaration(declaration) /\ declaration.id # Null
               THEN IF isReactClassComponent(declaration)
                      THEN <<declaration.id.name>> ELSE <<>>
             ELSE IF isVariableDeclaration(declaration)
               THEN SelectSeq(
                      [k \in 1..Len(declaration.declarations) |->
                         IF /\ isIdentifier(declaration.declarations[k].id)
                            /\ isComponentVariable(declaration.declarations[k].init,
                                                   declaration.declarations[k].id.name)
                           THEN declaration.declarations[k].id.name ELSE <<>>],
                      LAMBDA nm : nm # <<>>)
             ELSE <<>>
      ELSE <<>>

RECURSIVE setOrder(_, _)
\* Array.from(new Set(...)): insertion order, each value once.
setOrder(values, seen) ==
  IF values = <<>> THEN seen
  ELSE setOrder(Tail(values),
                IF \E k \in 1..Len(seen) : seen[k] = Head(values)
                  THEN seen ELSE Append(seen, Head(values)))

\* [A-Z][a-zA-Z0-9]* matching a whole identifier (the identifiers of the model
\* are alphanumeric, so the capture is the identifier or nothing).
capturesUpperName(name) ==
  name # <<>> /\ \E ch \in DOMAIN UpperOf : UpperOf[ch] = name[1]

\* extractComponentsFallback: the regex matches in one statement's text.
\* /export\s+(?:function|const)\s+([A-Z][a-zA-Z0-9]*)\s*[=:]/g asks for `=` or
\* `:` after the name; /export\s+class\s+([A-Z][a-zA-Z0-9]*)/g does not.
fallbackFunctionMatch(node) ==
  IF /\ isType(node, "ExportNamedDeclaration")
     /\ node.exportKind = "value"
     /\ isVariableDeclaration(node.declaration)
     /\ node.declaration.kind = "const"
     /\ capturesUpperName(node.declaration.declarations[1].id.name)
    THEN <<node.declaration.declarations[1].id.name>>
    ELSE <<>>

fallbackClassMatch(node) ==
  IF /\ isType(node, "ExportNamedDeclaration")
     /\ isClassDeclaration(node.declaration)
     /\ capturesUpperName(node.declaration.id.name)
    THEN <<node.declaration.id.name>>
    ELSE <<>>

extractComponentsFallback(content) ==
  flatten([k \in 1..Len(content.stmts) |-> fallbackFunctionMatch(content.stmts[k])])
  \o flatten([k \in 1..Len(content.stmts) |-> fallbackClassMatch(content.stmts[k])])

\* 500 * 1024
maxFileSize == 512000

\* Mutant of extractComponentsWithAST: the size test is `>=`, so a file of
\* exactly maxFileSize bytes is skipped as well.
extractComponentsBelowCeiling(content, size, fileName) ==
  LET ast == parseRecovering(content)
  IN  IF size >= maxFileSize THEN [names |-> <<>>, via |-> "skipped"]
      ELSE IF ast.threw
        THEN [names |-> extractComponentsFallback(content), via |-> "fallback"]
      ELSE [names |-> setOrder(flatten([k \in 1..Len(ast.body) |->
                                          componentsOf(ast.body[k], fileName)]), <<>>),
            via |-> "ast"]

\* extractComponentsWithAST(filePath, fileName) on a file of the given size.
extractComponentsWithAST(content, size, fileName) ==
  LET ast == parseRecovering(content)
  IN  IF size > maxFileSize THEN [names |-> <<>>, via |-> "skipped"]
      ELSE IF ast.threw
        THEN [names |-> extractComponentsFallback(content), via |-> "fallback"]
      ELSE [names |-> setOrder(flatten([k \in 1..Len(ast.body) |->
                                          componentsOf(ast.body[k], fileName)]), <<>>),
            via |-> "ast"]

(***************************************************************************)
(* Source files the model puts on disk                                     *)
(***************************************************************************)
Box == <<"B", "o", "x">>
Row == <<"R", "o", "w">>
help == <<"h", "e", "l", "p">>
React == <<"R", "e", "a", "c", "t">>

\* { return <View/>; }   and   { return 42; }
markupBlock == BlockStatement(<<ReturnStatement(JSXElement)>>)
numberBlock == BlockStatement(<<ReturnStatement(NumericLiteral)>>)
\* () => <View/>   and   () => { return 42; }
markupArrow == ArrowFunctionExpression(JSXElement)
numberArrow == ArrowFunctionExpression(numberBlock)
\* React.memo(() => <View/>)
memoCall ==
  CallExpression(MemberExpression(Identifier(React), Identifier(<<"m", "e", "m", "o">>)),
                 <<markupArrow>>)
exportConst(name, init) ==
  ExportNamedDeclaration("value",
    VariableDeclaration("const", <<VariableDeclarator(Identifier(name), init)>>))

importStatements ==
  { \* import React from 'react';
    importDeclaration(<<ImportSpecifier(Identifier(React), Identifier(React))>>,
                      StringLiteral(<<"r", "e", "a", "c", "t">>)),
    \* import { withProfiler } from './x';
    withProfilerImportOf(<<".", "/", "x">>),
    \* import { withProfiler } from '../withProfiler';
    withProfilerImportOf(<<".", ".", "/">> \o withProfilerName) }

defaultExports ==
  { \* export default function Box() { return <View/>; }
    ExportDefaultDeclaration(ParsedFunction(Identifier(Box), markupBlock, Null)),
    \* export default class Box extends Component { render() {} }
    ExportDefaultDeclaration(
      ClassDeclaration(Identifier(Box), Identifier(<<"C", "o", "m", "p", "o", "n", "e", "n", "t">>),
                       <<ClassMethod(Identifier(<<"r", "e", "n", "d", "e", "r">>))>>)),
    \* export default Box;   export default help;
    ExportDefaultDeclaration(Identifier(Box)),
    ExportDefaultDeclaration(Identifier(help)),
    \* export default () => <View/>;
    ExportDefaultDeclaration(markupArrow),
    \* export default withProfiler(Box, 'Box');
    ExportDefaultDeclaration(wrappedCallOf(Identifier(Box), Box)) }

namedExports ==
  { \* export const Box = () => <View/>;
    exportConst(Box, markupArrow),
    \* export const Box = () => { return 42; };
    exportConst(Box, numberArrow),
    \* export const Box = React.memo(() => <View/>);
    exportConst(Box, memoCall),
    \* export const help = () => <View/>;
    exportConst(help, markupArrow),
    \* export const Row = 42, Box = () => <View/>;
    ExportNamedDeclaration("value",
      VariableDeclaration("const",
        <<VariableDeclarator(Identifier(Row), NumericLiteral),
          VariableDeclarator(Identifier(Box), markupArrow)>>)),
    \* export const Row = () => <View/>;
    exportConst(Row, markupArrow),
    \* export function Box(): JSX.Element { return <View/>; }
    ExportNamedDeclaration("value",
      ParsedFunction(Identifier(Box), markupBlock, StringLiteral(<<"J", "S", "X">>))),
    \* export function help() { return 42; }
    ExportNamedDeclaration("value", ParsedFunction(Identifier(help), numberBlock, Null)),
    \* export class Box {}
    ExportNamedDeclaration("value", ClassDeclaration(Identifier(Box), Null, <<>>)) }

otherStatements ==
  { \* function Box() { return <View/>; }
    ParsedFunction(Identifier(Box), markupBlock, Null),
    SyntaxError }

Statements == importStatements \cup defaultExports \cup namedExports \cup otherStatements

\* The files Init may put on disk: every statement list up to MaxStmts that is
\* a module (or holds text that does not parse).
SourceFiles ==
  {stmts \in UNION {[1..len -> Statements] : len \in 0..MaxStmts} :
     ~hasRedeclaration(stmts) /\ ~hasSeveralDefaultExports(stmts)}

\* export const Box = <text that does not parse>
brokenExports == {exportConst(Box, SyntaxError)}

\* Exports whose value is no component.
plainExports ==
  { \* export function Box() { return 42; }
    ExportNamedDeclaration("value", ParsedFunction(Identifier(Box), numberBlock, Null)),
    \* export const Box = function () { return 42; };
    exportConst(Box, FunctionExpression(numberBlock)),
    \* export const Box = help();
    exportConst(Box, CallExpression(Identifier(help), <<>>)) }

\* The files a scan may meet: any text, module or not.
ScannedFiles ==
  UNION {[1..len -> Statements \cup brokenExports \cup plainExports] :
           len \in 0..MaxStmts}

\* componentName arguments
ComponentNames == {Box, help}

\* The directory of the component file, and where findWithProfilerFile may
\* find the helper (<<>>: not found).
src == <<"s", "r", "c">>
ui == <<"u", "i">>
withProfilerTsx == withProfilerName \o <<".", "t", "s", "x">>
componentFileDir == <<src, ui>>
HelperFiles == {<<>>, <<src, withProfilerTsx>>}

\* fileName arguments of extractComponentsWithAST: a.js, _b.js, [i].js
FileNames ==
  {<<"a", ".", "j", "s">>, <<"_", "b", ".", "j", "s">>, <<"[", "i", "]", ".", "j", "s">>}

\* stats.size of the scanned file
FileSizes == {2048, maxFileSize, maxFileSize + 1, 2097152}

(***************************************************************************)
(* State                                                                   *)
(***************************************************************************)
VARIABLES
  disk,                    \* text of the component file
  helperFile,              \* path of the withProfiler helper in the project
  withProfilerImportPath,  \* ComponentWrapper.withProfilerImportPath
  inFlight,                \* wrapComponent calls awaiting wrapComponentWithAST
  done,                    \* the wrapComponent call that returned last
  scan,                    \* what extractComponentsWithAST returned last
  files,                   \* the component files of a project, by position
  batch,                   \* the wrapComponents call of the profiler panel
  servers,                 \* the ProfilerServer objects constructed so far
  exchange,                \* the last HTTP request and its response
  profilerServer,          \* extension.ts: profilerServer (0: undefined)
  profilerPanel,           \* extension.ts: profilerPanel and the panel's fields
  rnConfig,                \* the content of rn-profiler-config.ts
  commands,                \* the commands of the extension that are awaiting
  stopped,                 \* the logs the last stopRecording collected
  analysis,                \* what the last analyzeLogs command did
  currentPanel,            \* profilerPanel.ts: ProfilerPanel.currentPanel (0: undefined)
  webview,                 \* the webview of the panel and its 'ready' messages
  app                      \* the React Native app: what its profilers posted

\* The state of the ComponentWrapper and the ComponentTreeProvider.
wrapperVars ==
  <<disk, helperFile, withProfilerImportPath, inFlight, done, scan, files>>

\* The ProfilerServer objects and their HTTP traffic.
serverVars == <<servers, exchange>>

\* The module state of extension.ts, the panel and the config file.
extensionVars ==
  <<profilerServer, profilerPanel, rnConfig, commands, stopped, analysis,
    currentPanel, webview>>

\* The rest of the state, seen from each part.
outsideWrapper == <<batch, serverVars, extensionVars, app>>
outsideBatch == <<wrapperVars, serverVars, extensionVars, app>>
outsideServer == <<wrapperVars, batch, extensionVars, app>>
outsideExtension == <<wrapperVars, batch, exchange, app>>
outsideApp == <<wrapperVars, batch, serverVars, profilerServer, profilerPanel,
                commands, stopped, analysis, currentPanel, webview>>

vars == <<wrapperVars, batch, serverVars, extensionVars, app>>

\* No wrapComponents call has been made.
NoBatch ==
  [components |-> <<>>, index |-> 0, successCount |-> 0, failCount |-> 0,
   attempted |-> <<>>, stage |-> "idle",
   shown |-> [severity |-> "none", text |-> "none", counts |-> <<>>]]

\* No HTTP request has been made.
NoExchange ==
  [route |-> "none", body |-> [t |-> "undefined"], status |-> 0, count |-> 0,
   logId |-> <<>>]

\* No ProfilerServer has been constructed.
IdleServer == servers = <<>> /\ exchange = NoExchange

\* profilerPanel is undefined.
NoPanel ==
  [open |-> FALSE, server |-> 0, storedLogs |-> <<>>, selectedComponents |-> <<>>]

\* rn-profiler-config.ts as the project ships it, never written by the extension.
NoConfig == [written |-> FALSE, enabled |-> FALSE, components |-> <<>>]

\* No analyzeLogs command has run.
NoAnalysis == [result |-> "none", logs |-> <<>>, recording |-> FALSE, collected |-> <<>>]

\* No webview panel has been created.
NoWebview == [disposed |-> FALSE, requests |-> <<>>]

\* The extension is activated and no command has run.
IdleExtension ==
  /\ profilerServer = 0
  /\ profilerPanel = NoPanel
  /\ rnConfig = NoConfig
  /\ commands = <<>>
  /\ stopped = <<>>
  /\ analysis = NoAnalysis
  /\ currentPanel = 0
  /\ webview = NoWebview

\* The app has rendered nothing.
IdleApp == app = [dev |-> TRUE, posted |-> <<>>]

\* Nothing outside the ComponentWrapper has happened.
IdleOutsideWrapper == batch = NoBatch /\ IdleServer /\ IdleExtension /\ IdleApp

NoCall ==
  [componentName |-> <<>>, stage |-> "none", returned |-> FALSE, wrappedCount |-> 0,
   originalContent |-> Text(<<>>, "source"), transformedContent |-> None,
   importPath |-> <<>>]

\* The model follows one component file only, the one held in disk.
NoFiles == <<>>

NoScan == [names |-> <<>>, via |-> "none", fileName |-> <<>>, size |-> 0]

Init ==
  /\ disk \in {Text(stmts, "source") : stmts \in SourceFiles}
  /\ helperFile \in HelperFiles
  /\ withProfilerImportPath = <<>>
  /\ inFlight = <<>>
  /\ done = NoCall
  /\ scan = NoScan
  /\ files = NoFiles
  /\ IdleOutsideWrapper

\* wrapComponent, lines 163-166: the component file does not exist.
WrapComponentFileMissing(componentName) ==
  /\ done' = [NoCall EXCEPT !.componentName = componentName, !.stage = "fileMissing"]
  /\ UNCHANGED <<disk, helperFile, withProfilerImportPath, inFlight, scan, files>>
  /\ UNCHANGED outsideWrapper

\* wrapComponent, lines 169-178: findWithProfilerFile returns null.
WrapComponentNoHelper(componentName) ==
  /\ helperFile = <<>>
  /\ done' = [NoCall EXCEPT !.componentName = componentName, !.stage = "noHelper"]
  /\ UNCHANGED <<disk, helperFile, withProfilerImportPath, inFlight, scan, files>>
  /\ UNCHANGED outsideWrapper

\* wrapComponent, lines 180-200: up to the await of wrapComponentWithAST, whose
\* body runs synchronously.
WrapComponentBegin(componentName) ==
  /\ helperFile # <<>>
  /\ Len(inFlight) < MaxInFlight
  /\ LET importPath == importPathFor(componentFileDir, helperFile)
         originalContent == disk
         transformed == wrapComponentWithAST(originalContent, componentName, importPath)
     IN  /\ withProfilerImportPath' = importPath
         /\ inFlight' = Append(inFlight,
              [componentName |-> componentName,
               originalContent |-> originalContent,
               transformedContent |-> transformed.result,
               wrappedCount |-> transformed.wrappedCount,
               threw |-> transformed.threw,
               importPath |-> importPath])
  /\ UNCHANGED <<disk, helperFile, done, scan, files>>
  /\ UNCHANGED outsideWrapper

\* if (transformedContent && transformedContent !== originalContent)
contentChanged(transformedContent, originalContent) ==
  transformedContent.some /\ transformedContent.code # originalContent

\* Mutant of writeIfChanged: the write is made, but `return true` is missing
\* and the call falls through to `return false`.
writeWithoutReturn(call, onDisk) ==
  IF contentChanged(call.transformedContent, call.originalContent)
    THEN [disk |-> call.transformedContent.code, returned |-> FALSE, stage |-> "noChange"]
    ELSE [disk |-> onDisk, returned |-> FALSE,
          stage |-> IF call.threw THEN "parseError" ELSE "noChange"]

\* wrapComponent, lines 202-208: what the call writes and returns once
\* wrapComponentWithAST has resolved.
writeIfChanged(call, onDisk) ==
  IF contentChanged(call.transformedContent, call.originalContent)
    THEN [disk |-> call.transformedContent.code, returned |-> TRUE, stage |-> "written"]
    ELSE [disk |-> onDisk, returned |-> FALSE,
          stage |-> IF call.threw THEN "parseError" ELSE "noChange"]

\* wrapComponent, lines 202-208, for the call that awaited first.
WrapComponentEnd ==
  /\ inFlight # <<>>
  /\ LET call == Head(inFlight)
         out == writeIfChanged(call, disk)
     IN  /\ disk' = out.disk
         /\ done' = [componentName |-> call.componentName, stage |-> out.stage,
                     returned |-> out.returned, wrappedCount |-> call.wrappedCount,
                     originalContent |-> call.originalContent,
                     transformedContent |-> call.transformedContent,
                     importPath |-> call.importPath]
  /\ inFlight' = Tail(inFlight)
  /\ UNCHANGED <<helperFile, withProfilerImportPath, scan, files>>
  /\ UNCHANGED outsideWrapper

\* wrapComponent, lines 204 and 209-213: fs.writeFileSync cannot open the file
\* for writing (EACCES, EROFS) and throws; the catch returns false.
WrapComponentWriteFails ==
  /\ inFlight # <<>>
  /\ LET call == Head(inFlight)
     IN  /\ contentChanged(call.transformedContent, call.originalContent)
         /\ done' = [componentName |-> call.componentName, stage |-> "writeFailed",
                     returned |-> FALSE, wrappedCount |-> call.wrappedCount,
                     originalContent |-> call.originalContent,
                     transformedContent |-> call.transformedContent,
                     importPath |-> call.importPath]
  /\ inFlight' = Tail(inFlight)
  /\ UNCHANGED <<disk, helperFile, withProfilerImportPath, scan, files>>
  /\ UNCHANGED outsideWrapper

\* extractComponentsWithAST(filePath, fileName) on the component file.
ExtractComponents(fileName, size) ==
  /\ scan' = [extractComponentsWithAST(disk, size, fileName) EXCEPT !.via = @]
             @@ [fileName |-> fileName, size |-> size]
  /\ UNCHANGED <<disk, helperFile, withProfilerImportPath, inFlight, done, files>>
  /\ UNCHANGED outsideWrapper

Next ==
  \/ \E componentName \in ComponentNames : WrapComponentFileMissing(componentName)
  \/ \E componentName \in ComponentNames : WrapComponentNoHelper(componentName)
  \/ \E componentName \in ComponentNames : WrapComponentBegin(componentName)
  \/ WrapComponentEnd
  \/ WrapComponentWriteFails

\* The transformer: wrapComponent calls on one component file.
Spec == Init /\ [][Next]_vars

NextScan ==
  \E fileName \in FileNames, size \in FileSizes : ExtractComponents(fileName, size)

InitScan ==
  /\ disk \in {Text(stmts, "source") : stmts \in ScannedFiles}
  /\ helperFile \in HelperFiles
  /\ withProfilerImportPath = <<>>
  /\ inFlight = <<>>
  /\ done = NoCall
  /\ scan = NoScan
  /\ files = NoFiles
  /\ IdleOutsideWrapper

\* The detector: scans of one component file.
ScanSpec == InitScan /\ [][NextScan]_vars


(***************************************************************************)
(* ProfilerPanel.wrapComponents (src/src/profilerPanel.ts)                 *)
(***************************************************************************)
colons == <<":", ":">>
slash == <<"/">>
backslash == <<"\\">>

\* The last segment of a path.
lastSegment(filePath) ==
  LET parts == split(filePath, slash) IN parts[Len(parts)]

\* [".tsx", ".jsx", ".ts", ".js"]
componentExtensions ==
  {<<".", "t", "s", "x">>, <<".", "j", "s", "x">>, <<".", "t", "s">>, <<".", "j", "s">>}

\* Component paths the webview may post: "ui/B.tsx::Box", "ui/B.tsx", "Box",
\* "ui/lib" (a directory of the tree) and "::Box".
uiBTsx == <<"u", "i", "/", "B", ".", "t", "s", "x">>
uiLib == <<"u", "i", "/", "l", "i", "b">>
ComponentPaths == {uiBTsx \o colons \o Box, uiBTsx, Box, uiLib, colons \o Box}

Batches == UNION {[1..len -> ComponentPaths] : len \in 0..MaxBatch}

\* How componentWrapper.wrapComponent settles: it resolves to true or to false,
\* or it rejects.
WrapOutcomes == {"true", "false", "throws"}

\* vscode.window.show*Message
Message(severity, text, counts) == [severity |-> severity, text |-> text, counts |-> counts]

\* const [filePath] = componentPath.split("::")
filePathOf(componentPath) == split(componentPath, colons)[1]

\* componentName of one item (lines 555-558)
componentNameOf(componentPath) ==
  IF includes(componentPath, colons)
    THEN split(componentPath, colons)[2]
    ELSE basename(lastSegment(filePathOf(componentPath)),
                  extname(lastSegment(filePathOf(componentPath))))

\* path.extname(filePath).toLowerCase()
fileExtOf(filePath) ==
  LET ext == extname(lastSegment(filePath))
  IN  [k \in 1..Len(ext) |-> toLowerCase(ext[k])]

\* One iteration of the loop over the component paths: what it adds to the
\* counters and what it shows, given whether the file exists, whether
\* findFileByComponentName finds it, and how wrapComponent settles.
iteration(componentPath, exists, found, outcome) ==
  LET filePath == filePathOf(componentPath)
      none == Message("none", "none", <<>>)
  IN  IF /\ ~includes(componentPath, colons)
         /\ ~includes(componentPath, slash)
         /\ ~includes(componentPath, backslash)
        THEN [success |-> 0, fail |-> 1, did |-> "noFilePath",
              shown |-> Message("warning", "noFilePath", <<>>)]
      ELSE IF filePath = <<>> \/ trim(filePath) = <<>>
        THEN [success |-> 0, fail |-> 1, did |-> "invalidPath", shown |-> none]
      ELSE IF fileExtOf(filePath) \notin componentExtensions
        THEN [success |-> 0, fail |-> 0, did |-> "skipped", shown |-> none]
      ELSE IF ~exists /\ ~found
        THEN [success |-> 0, fail |-> 1, did |-> "fileNotFound",
              shown |-> Message("warning", "fileNotFound", <<>>)]
      ELSE IF outcome = "true"
        THEN [success |-> 1, fail |-> 0, did |-> "wrapped", shown |-> none]
      ELSE [success |-> 0, fail |-> 1,
            did |-> IF outcome = "throws" THEN "threw" ELSE "notWrapped",
            shown |-> none]

\* The message after the loop (lines 663-675).
report(successCount, failCount) ==
  IF successCount > 0
    THEN Message("information", "wrapped",
                 IF failCount > 0 THEN <<successCount, failCount>> ELSE <<successCount>>)
  ELSE IF failCount > 0 THEN Message("warning", "wrapManually", <<>>)
  ELSE Message("none", "none", <<>>)

\* Lines 515-519: no workspace folder is open.
WrapComponentsNoWorkspace(components) ==
  /\ batch.stage = "idle"
  /\ batch' = [NoBatch EXCEPT !.components = components, !.stage = "rejected",
                              !.shown = Message("error", "noWorkspace", <<>>)]
  /\ UNCHANGED outsideBatch

\* Lines 522-528: findReactNativeProject finds no project.
WrapComponentsNoProject(components) ==
  /\ batch.stage = "idle"
  /\ batch' = [NoBatch EXCEPT !.components = components, !.stage = "rejected",
                              !.shown = Message("error", "noProject", <<>>)]
  /\ UNCHANGED outsideBatch

\* Lines 530-536: the counters are set up and the loop is entered.
WrapComponentsStart(components) ==
  /\ batch.stage = "idle"
  /\ batch' = [NoBatch EXCEPT !.components = components, !.stage = "looping",
                              !.shown = Message("information", "wrapping",
                                                <<Len(components)>>)]
  /\ UNCHANGED outsideBatch

\* Lines 538-660: the iteration for the next component path.
WrapComponentsItem ==
  /\ batch.stage = "looping"
  /\ batch.index < Len(batch.components)
  /\ \E exists \in BOOLEAN, found \in BOOLEAN, outcome \in WrapOutcomes :
       LET step == iteration(batch.components[batch.index + 1], exists, found, outcome)
       IN  batch' = [batch EXCEPT !.index = @ + 1,
                                  !.successCount = @ + step.success,
                                  !.failCount = @ + step.fail,
                                  !.attempted = Append(@, step.did),
                                  !.shown = IF step.shown.severity = "none"
                                              THEN @ ELSE step.shown]
  /\ UNCHANGED outsideBatch

\* Lines 663-675: the loop is over.
WrapComponentsReport ==
  /\ batch.stage = "looping"
  /\ batch.index = Len(batch.components)
  /\ batch' = [batch EXCEPT !.stage = "reported",
                            !.shown = report(batch.successCount, batch.failCount)]
  /\ UNCHANGED outsideBatch

InitBatch ==
  /\ disk = Text(<<>>, "source")
  /\ helperFile = <<>>
  /\ withProfilerImportPath = <<>>
  /\ inFlight = <<>>
  /\ done = NoCall
  /\ scan = NoScan
  /\ files = NoFiles
  /\ batch = NoBatch
  /\ IdleServer
  /\ IdleExtension
  /\ IdleApp

NextBatch ==
  \/ \E components \in Batches : WrapComponentsNoWorkspace(components)
  \/ \E components \in Batches : WrapComponentsNoProject(components)
  \/ \E components \in Batches : WrapComponentsStart(components)
  \/ WrapComponentsItem
  \/ WrapComponentsReport

\* The profiler panel: one wrapComponents call.
BatchSpec == InitBatch /\ [][NextBatch]_vars


(***************************************************************************)
(* ProfilerServer (src/src/profilerServer.ts)                              *)
(*                                                                         *)
(* JSON values are records tagged with their kind; the text of a string is *)
(* a sequence of characters.                                               *)
(***************************************************************************)
Undefined == [t |-> "undefined"]
Str(chars) == [t |-> "string", chars |-> chars]
Num(value) == [t |-> "number", value |-> value]
JSArray == [t |-> "array"]
\* A ProfileLog as it travels: the fields the server looks at.
Obj(id, phase, actualDuration, timestamp, deviceInfo) ==
  [t |-> "object", id |-> id, phase |-> phase, actualDuration |-> actualDuration,
   timestamp |-> timestamp, deviceInfo |-> deviceInfo]

\* typeof value
typeof(value) == IF value.t \in {"object", "array", "null"} THEN "object" ELSE value.t

\* !value
falsy(value) ==
  \/ value.t \in {"undefined", "null"}
  \/ value.t = "string" /\ value.chars = <<>>
  \/ value.t = "number" /\ value.value = 0

\* value.id, value.phase, value.actualDuration
idOf(value) == IF value.t = "object" THEN value.id ELSE Undefined
phaseOf(value) == IF value.t = "object" THEN value.phase ELSE Undefined
actualDurationOf(value) == IF value.t = "object" THEN value.actualDuration ELSE Undefined

mount == <<"m", "o", "u", "n", "t">>
update == <<"u", "p", "d", "a", "t", "e">>
forceUpdate == <<"f", "o", "r", "c", "e", "-", "u", "p", "d", "a", "t", "e">>
unmount == <<"u", "n", "m", "o", "u", "n", "t">>

\* ['mount', 'update', 'force-update']
phases == {Str(mount), Str(update), Str(forceUpdate)}

\* new Date().toISOString() at the time of the request; a time sent by the app
now == Str(<<"n", "o", "w">>)
earlier == Str(<<"t", "0">>)

\* { os: 'unknown', version: 'unknown' }; the deviceInfo the app sends
unknownDevice == Str(<<"u", "n", "k", "n", "o", "w", "n">>)
android == Str(<<"a", "n", "d", "r", "o", "i", "d">>)

\* new ProfilerServer(port): no http server yet, no logs
ProfilerServer == [server |-> FALSE, listening |-> FALSE, logs |-> <<>>]

\* isRunning()
isRunning(this) == this.server

\* getLogs()
getLogs(this) == this.logs

\* Mutant of postProfileData: the test of the phase against the three known
\* phases is missing.
postProfileDataAnyPhase(logs, body) ==
  IF falsy(body) \/ typeof(body) # "object"
    THEN [status |-> 400, logs |-> logs, count |-> 0, logId |-> <<>>]
  ELSE IF \/ falsy(idOf(body))
          \/ falsy(phaseOf(body))
          \/ typeof(actualDurationOf(body)) # "number"
    THEN [status |-> 400, logs |-> logs, count |-> 0, logId |-> <<>>]
  ELSE LET profileLog ==
             [body EXCEPT !.timestamp = IF falsy(@) THEN now ELSE @,
                          !.deviceInfo = IF falsy(@) THEN unknownDevice ELSE @]
       IN  [status |-> 200, logs |-> Append(logs, profileLog),
            count |-> Len(logs) + 1, logId |-> profileLog.id.chars]

\* The handler of POST /profile-data: the response and the logs afterwards.
postProfileData(logs, body) ==
  IF falsy(body) \/ typeof(body) # "object"
    THEN [status |-> 400, logs |-> logs, count |-> 0, logId |-> <<>>]
  ELSE IF \/ falsy(idOf(body))
          \/ falsy(phaseOf(body))
          \/ typeof(actualDurationOf(body)) # "number"
    THEN [status |-> 400, logs |-> logs, count |-> 0, logId |-> <<>>]
  ELSE IF phaseOf(body) \notin phases
    THEN [status |-> 400, logs |-> logs, count |-> 0, logId |-> <<>>]
  ELSE LET profileLog ==
             [body EXCEPT !.timestamp = IF falsy(@) THEN now ELSE @,
                          !.deviceInfo = IF falsy(@) THEN unknownDevice ELSE @]
       IN  [status |-> 200, logs |-> Append(logs, profileLog),
            count |-> Len(logs) + 1, logId |-> profileLog.id.chars]

\* Request bodies: what express.json() may hand to the handler.  The app
\* sends timestamp and deviceInfo together; other clients send neither.
Bodies ==
  {Undefined, JSArray}
  \cup {Obj(id, phase, actualDuration, extras[1], extras[2]) :
          id \in {Undefined, Str(<<>>), Str(Box)},
          phase \in {Undefined, Str(mount), Str(update), Str(forceUpdate), Str(unmount)},
          actualDuration \in {Undefined, Num(12), Str(<<"1", "2">>)},
          extras \in {<<Undefined, Undefined>>, <<earlier, android>>}}

\* POST /profile-data reaches a server that listens.
PostProfileData(s, body) ==
  /\ servers[s].listening
  /\ Len(servers[s].logs) < MaxLogs
  /\ LET out == postProfileData(servers[s].logs, body)
     IN  /\ servers' = [servers EXCEPT ![s].logs = out.logs]
         /\ exchange' = [route |-> "POST /profile-data", body |-> body,
                         status |-> out.status, count |-> out.count,
                         logId |-> out.logId]
  /\ UNCHANGED outsideServer

\* GET /health reaches a server that listens.
GetHealth(s) ==
  /\ servers[s].listening
  /\ exchange' = [route |-> "GET /health", body |-> Undefined, status |-> 200,
                  count |-> Len(servers[s].logs), logId |-> <<>>]
  /\ UNCHANGED <<servers, outsideServer>>

\* clearLogs()
ClearLogs(s) ==
  /\ servers' = [servers EXCEPT ![s].logs = <<>>]
  /\ UNCHANGED <<exchange, outsideServer>>

InitServer ==
  /\ disk = Text(<<>>, "source")
  /\ helperFile = <<>>
  /\ withProfilerImportPath = <<>>
  /\ inFlight = <<>>
  /\ done = NoCall
  /\ scan = NoScan
  /\ files = NoFiles
  /\ batch = NoBatch
  /\ servers = <<[ProfilerServer EXCEPT !.server = TRUE, !.listening = TRUE]>>
  /\ exchange = NoExchange
  /\ IdleExtension
  /\ IdleApp

NextServer ==
  \/ \E s \in 1..Len(servers), body \in Bodies : PostProfileData(s, body)
  \/ \E s \in 1..Len(servers) : GetHealth(s)
  \/ \E s \in 1..Len(servers) : ClearLogs(s)

\* One ProfilerServer that listens, and the requests that reach it.
ServerSpec == InitServer /\ [][NextServer]_vars


(***************************************************************************)
(* rn-profiler-config.ts and the withProfiler HOC of the app               *)
(***************************************************************************)
\* The component paths the panel's tree lets the user select.
Selections ==
  {<<>>,
   <<uiBTsx \o colons \o Box>>,
   <<uiBTsx \o colons \o Row, uiBTsx>>}

\* The component names of the selected paths (extension.ts, lines 87-98).
componentNamesOf(selectedComponents) ==
  LET nameOf(compPath) ==
        LET parts == split(compPath, colons)
        IN  IF Len(parts) > 1 THEN parts[2]
            ELSE stripSourceExtension(lastSegment(compPath))
  IN  SelectSeq([k \in 1..Len(selectedComponents) |-> nameOf(selectedComponents[k])],
                LAMBDA name : Len(name) > 0)

\* The content updateRNConfig(enabled, components) writes.
configContent(enabled, components) ==
  [written |-> TRUE, enabled |-> enabled, components |-> components]

\* COMPONENTS_TO_PROFILE.includes(componentName)
listed(components, componentName) ==
  \E k \in 1..Len(components) : components[k] = componentName

\* The onRender callback made by createOnRenderCallback(componentName): the
\* profile log it posts, if any.
onRender(config, dev, componentName, phase) ==
  IF ~config.enabled \/ ~dev THEN <<>>
  ELSE IF Len(config.components) > 0 /\ ~listed(config.components, componentName)
    THEN <<>>
  ELSE <<Obj(Str(componentName), Str(phase), Num(12), earlier, android)>>

\* The names given to withProfiler(Component, name) in the app.
WrappedComponents == {Box, Row}

\* React commits a render of a component wrapped with withProfiler.
Render(componentName, phase) ==
  /\ Len(app.posted) < MaxPosted
  /\ app' = [app EXCEPT !.posted = @ \o onRender(rnConfig, app.dev, componentName, phase)]
  /\ UNCHANGED <<rnConfig, outsideApp>>

InitApp ==
  /\ disk = Text(<<>>, "source")
  /\ helperFile = <<>>
  /\ withProfilerImportPath = <<>>
  /\ inFlight = <<>>
  /\ done = NoCall
  /\ scan = NoScan
  /\ files = NoFiles
  /\ batch = NoBatch
  /\ IdleServer
  /\ profilerServer = 0
  /\ profilerPanel = NoPanel
  /\ commands = <<>>
  /\ stopped = <<>>
  /\ analysis = NoAnalysis
  /\ currentPanel = 0
  /\ webview = NoWebview
  /\ rnConfig \in {NoConfig}
       \cup {configContent(enabled, componentNamesOf(selection)) :
               enabled \in BOOLEAN, selection \in Selections}
  /\ app \in {[dev |-> dev, posted |-> <<>>] : dev \in BOOLEAN}

NextApp ==
  \E componentName \in WrappedComponents, phase \in {mount, update} :
    Render(componentName, phase)

\* The app, bundled with one content of rn-profiler-config.ts, renders.
AppSpec == InitApp /\ [][NextApp]_vars

(***************************************************************************)
(* extension.ts: the recording commands                                    *)
(***************************************************************************)
\* A command of the extension that awaits the file system.
Command(kind, pc, enabled, componentNames, logs, server) ==
  [kind |-> kind, pc |-> pc, enabled |-> enabled,
   componentNames |-> componentNames, logs |-> logs, server |-> server]

\* The commands without the one at position i, which returned.
returned(i) ==
  [k \in 1..(Len(commands) - 1) |-> IF k < i THEN commands[k] ELSE commands[k + 1]]

\* profilerPanel?.getSelectedComponents() || []
getSelectedComponents(panel) ==
  IF panel.open THEN panel.selectedComponents ELSE <<>>

\* ProfilerPanel.setServer(server), for a panel that exists.
setServer(panel, server) ==
  IF ~panel.open THEN panel
  ELSE [panel EXCEPT !.server = server,
                     !.storedLogs = IF server # 0 THEN <<>> ELSE @]

\* ProfilerPanel.storeLogs(logs), for a panel that exists.
storeLogs(panel, logs) ==
  IF ~panel.open THEN panel ELSE [panel EXCEPT !.storedLogs = logs]

\* The analyzeLogs command, up to the call of the analyzer.
analyzeLogsCommand(current, allServers, panel, collected) ==
  LET logs == IF current # 0 THEN getLogs(allServers[current])
              ELSE IF panel.open THEN panel.storedLogs
              ELSE <<>>
  IN  [result |-> IF Len(logs) = 0 THEN "noLogs"
                  ELSE IF panel.open THEN "analyzed"
                  ELSE "openPanel",
       logs |-> logs, recording |-> current # 0, collected |-> collected]

\* ProfilerPanel.createOrShow: the current panel is revealed, or a panel is
\* created and becomes the current one.
createOrShow ==
  IF currentPanel # 0
    THEN UNCHANGED <<currentPanel, webview>>
    ELSE /\ currentPanel' = 1
         /\ webview' = NoWebview

\* ProfilerPanel.reveal: this.panel.reveal() shows the webview panel it holds;
\* on a disposed webview panel it shows nothing.
reveal == UNCHANGED <<currentPanel, webview>>

\* rnProfilerAI.showProfilerPanel
ShowPanel ==
  /\ profilerPanel' = [profilerPanel EXCEPT !.open = TRUE]
  /\ IF profilerPanel.open
       THEN reveal
       ELSE createOrShow
  /\ UNCHANGED <<servers, profilerServer, rnConfig, commands, stopped, analysis,
                 outsideExtension>>

\* The user closes the panel: onDidDispose runs dispose(), which clears
\* ProfilerPanel.currentPanel; the extension's profilerPanel is not told.
Dispose ==
  /\ currentPanel # 0
  /\ ~webview.disposed
  /\ webview' = [webview EXCEPT !.disposed = TRUE]
  /\ currentPanel' = 0
  /\ UNCHANGED <<servers, profilerServer, profilerPanel, rnConfig, commands, stopped,
                 analysis, outsideExtension>>

\* The webview posts a new selection: updateSelectedComponents(components)
\* runs up to its await of findReactNativeProject.
UpdateSelectedComponents(components) ==
  /\ profilerPanel.open
  /\ Len(commands) < MaxCommands
  /\ profilerPanel' = [profilerPanel EXCEPT !.selectedComponents = components]
  /\ commands' = Append(commands,
                        Command("select", "find", FALSE, componentNamesOf(components),
                                <<>>, 0))
  /\ UNCHANGED <<servers, profilerServer, rnConfig, stopped, analysis,
                 currentPanel, webview, outsideExtension>>

\* findReactNativeProject settles in updateSelectedComponents: the content is
\* built with the state of the panel's server at this moment.
UpdateSelectedComponentsFinds(i, found) ==
  /\ commands[i].pc = "find"
  /\ commands' =
       IF ~found THEN returned(i)
       ELSE [commands EXCEPT
               ![i].pc = "write",
               ![i].enabled = /\ profilerPanel.server # 0
                              /\ isRunning(servers[profilerPanel.server])]
  /\ UNCHANGED <<servers, profilerServer, profilerPanel, rnConfig, stopped, analysis,
                 currentPanel, webview, outsideExtension>>

\* The port of the profiler server can be bound: no server of the extension
\* listens on it and no bind of this tick has just failed on it.
portFree ==
  /\ \A s \in 1..Len(servers) : ~servers[s].listening
  /\ \A i \in 1..Len(commands) : commands[i].pc # "error"

\* A startRecording command without its test of profilerServer.
startsAnyway(current) == TRUE

\* if (!profilerServer)
startsRecording(current) == current = 0

\* rnProfilerAI.startRecording, up to its await of profilerServer.start():
\* app.listen has bound the port or has failed to, and Node emits 'listening'
\* or 'error' on a later tick.
StartRecording(binds) ==
  IF ~startsRecording(profilerServer)
    THEN UNCHANGED vars
  ELSE
    /\ Len(servers) < MaxServers
    /\ Len(commands) < MaxCommands
    /\ binds => portFree
    /\ servers' = Append(servers,
                         [ProfilerServer EXCEPT !.server = TRUE, !.listening = binds])
    /\ profilerServer' = Len(servers) + 1
    /\ commands' = Append(commands,
                          Command("start", IF binds THEN "listen" ELSE "error", TRUE,
                                  <<>>, <<>>, Len(servers) + 1))
    /\ stopped' = <<>>
    /\ UNCHANGED <<profilerPanel, rnConfig, analysis, currentPanel, webview,
                   outsideExtension>>

\* 'listening' is emitted for the server of command i, which no stop has
\* closed meanwhile: startRecording goes on up to its await of updateRNConfig.
StartRecordingListens(i) ==
  /\ commands[i].pc = "listen"
  /\ servers[commands[i].server].listening
  /\ profilerPanel' = setServer(profilerPanel, profilerServer)
  /\ commands' =
       [commands EXCEPT
          ![i].pc = "write",
          ![i].componentNames = componentNamesOf(getSelectedComponents(profilerPanel))]
  /\ UNCHANGED <<servers, profilerServer, rnConfig, stopped, analysis, currentPanel,
                 webview, outsideExtension>>

\* 'error' is emitted for the server of command i: start() rejects and the
\* catch of startRecording resets profilerServer.
StartRecordingFails(i) ==
  /\ commands[i].pc = "error"
  /\ profilerServer' = 0
  /\ commands' = returned(i)
  /\ UNCHANGED <<servers, profilerPanel, rnConfig, stopped, analysis, currentPanel,
                 webview, outsideExtension>>

\* rnProfilerAI.stopRecording, up to its await of updateRNConfig.
StopRecording ==
  IF profilerServer = 0
    THEN UNCHANGED vars
  ELSE
    LET logs == getLogs(servers[profilerServer])
    IN  /\ Len(commands) < MaxCommands
        /\ servers' = [servers EXCEPT ![profilerServer].server = FALSE,
                                      ![profilerServer].listening = FALSE]
        /\ profilerServer' = 0
        /\ profilerPanel' = storeLogs(setServer(profilerPanel, 0), logs)
        /\ commands' = Append(commands,
                              Command("stop", "write", FALSE,
                                      componentNamesOf(getSelectedComponents(profilerPanel)),
                                      logs, 0))
        /\ stopped' = logs
        /\ UNCHANGED <<rnConfig, analysis, currentPanel, webview, outsideExtension>>

\* The write of rn-profiler-config.ts that command i awaits settles: it was
\* made, or the project was not found or writeFile failed.  The command runs
\* to its end: stopRecording executes analyzeLogs if autoAnalyze is set.
UpdateRNConfigSettles(i, written, autoAnalyze) ==
  /\ commands[i].pc = "write"
  /\ rnConfig' = IF written
                   THEN configContent(commands[i].enabled, commands[i].componentNames)
                   ELSE rnConfig
  /\ commands' = returned(i)
  /\ analysis' =
       IF commands[i].kind = "stop" /\ autoAnalyze /\ Len(commands[i].logs) > 0
         THEN analyzeLogsCommand(profilerServer, servers, profilerPanel, stopped)
         ELSE analysis
  /\ UNCHANGED <<servers, profilerServer, profilerPanel, stopped, currentPanel,
                 webview, outsideExtension>>

\* rnProfilerAI.analyzeLogs, run by the user.
AnalyzeLogs ==
  /\ analysis' = analyzeLogsCommand(profilerServer, servers, profilerPanel, stopped)
  /\ UNCHANGED <<servers, profilerServer, profilerPanel, rnConfig, commands, stopped,
                 currentPanel, webview, outsideExtension>>

\* What the app posts while a recording runs.
RecordedBodies == {Obj(Str(Box), Str(mount), Num(12), earlier, android)}

\* The selections the webview posts while recordings are made.
PostedSelections == {<<>>, <<uiBTsx \o colons \o Box>>}

InitRecord ==
  /\ disk = Text(<<>>, "source")
  /\ helperFile = <<>>
  /\ withProfilerImportPath = <<>>
  /\ inFlight = <<>>
  /\ done = NoCall
  /\ scan = NoScan
  /\ files = NoFiles
  /\ IdleOutsideWrapper

NextRecord ==
  \/ ShowPanel
  \/ \E components \in PostedSelections : UpdateSelectedComponents(components)
  \/ \E i \in 1..Len(commands), found \in BOOLEAN : UpdateSelectedComponentsFinds(i, found)
  \/ \E binds \in BOOLEAN : StartRecording(binds)
  \/ \E i \in 1..Len(commands) : StartRecordingListens(i)
  \/ \E i \in 1..Len(commands) : StartRecordingFails(i)
  \/ StopRecording
  \/ \E i \in 1..Len(commands), written \in BOOLEAN, autoAnalyze \in BOOLEAN :
       UpdateRNConfigSettles(i, written, autoAnalyze)
  \/ AnalyzeLogs
  \/ \E s \in 1..Len(servers), body \in RecordedBodies : PostProfileData(s, body)

\* The extension's commands, interleaved at their awaits, and the app's posts.
RecordSpec == InitRecord /\ [][NextRecord]_vars

(***************************************************************************)
(* The webview panel: its lifecycle and its 'ready' messages               *)
(***************************************************************************)
\* The trees getComponentTree resolves with: the empty tree of a workspace
\* without root or without components, and a tree with one file.
Trees == {<<>>, <<uiBTsx>>}

\* A 'ready' message whose handler has returned: getComponentTree is running,
\* the 30-second timer is armed and Promise.race is pending.
Loading ==
  [scan |-> "running", tree |-> <<>>, timer |-> "armed", race |-> "pending",
   responses |-> <<>>, errorShown |-> FALSE]

\* sendMessage({type: "componentTree", tree})
componentTree(tree) == [type |-> "componentTree", tree |-> tree]

\* A handler that answers every settlement of its promises, without
\* Promise.race.
settlesEachTime(request, outcome, tree) ==
  [request EXCEPT
     !.race = outcome,
     !.responses = Append(@, componentTree(IF outcome = "fulfilled" THEN tree ELSE <<>>)),
     !.errorShown = @ \/ outcome = "rejected"]

\* Promise.race([...]).then(...).catch(...): the race settles with the first
\* of its promises and the reaction of that outcome runs; a later settlement
\* of the other promise is ignored.
settles(request, outcome, tree) ==
  IF request.race # "pending" THEN request
  ELSE [request EXCEPT
          !.race = outcome,
          !.responses =
             Append(@, componentTree(IF outcome = "fulfilled" THEN tree ELSE <<>>)),
          !.errorShown = outcome = "rejected"]

\* The webview posts 'ready': handleMessage starts getComponentTree and the
\* timer, and returns.
Ready ==
  /\ currentPanel # 0
  /\ ~webview.disposed
  /\ Len(webview.requests) < MaxReady
  /\ webview' = [webview EXCEPT !.requests = Append(@, Loading)]
  /\ UNCHANGED <<servers, profilerServer, profilerPanel, rnConfig, commands, stopped,
                 analysis, currentPanel, outsideExtension>>

\* getComponentTree resolves with a tree.
ScanResolves(r, tree) ==
  /\ webview.requests[r].scan = "running"
  /\ webview' =
       [webview EXCEPT
          !.requests[r] =
             settles([@ EXCEPT !.scan = "resolved", !.tree = tree], "fulfilled", tree)]
  /\ UNCHANGED <<servers, profilerServer, profilerPanel, rnConfig, commands, stopped,
                 analysis, currentPanel, outsideExtension>>

\* getComponentTree throws: its catch rethrows the error.
ScanRejects(r) ==
  /\ webview.requests[r].scan = "running"
  /\ webview' =
       [webview EXCEPT
          !.requests[r] = settles([@ EXCEPT !.scan = "rejected"], "rejected", <<>>)]
  /\ UNCHANGED <<servers, profilerServer, profilerPanel, rnConfig, commands, stopped,
                 analysis, currentPanel, outsideExtension>>

\* The 30 seconds have passed: the timer, which nothing clears, rejects
\* timeoutPromise.
TimerFires(r) ==
  /\ webview.requests[r].timer = "armed"
  /\ webview' =
       [webview EXCEPT
          !.requests[r] = settles([@ EXCEPT !.timer = "fired"], "rejected", <<>>)]
  /\ UNCHANGED <<servers, profilerServer, profilerPanel, rnConfig, commands, stopped,
                 analysis, currentPanel, outsideExtension>>

InitPanel ==
  /\ disk = Text(<<>>, "source")
  /\ helperFile = <<>>
  /\ withProfilerImportPath = <<>>
  /\ inFlight = <<>>
  /\ done = NoCall
  /\ scan = NoScan
  /\ files = NoFiles
  /\ IdleOutsideWrapper

NextPanel ==
  \/ ShowPanel
  \/ Dispose
  \/ Ready
  \/ \E r \in 1..Len(webview.requests), tree \in Trees : ScanResolves(r, tree)
  \/ \E r \in 1..Len(webview.requests) : ScanRejects(r)
  \/ \E r \in 1..Len(webview.requests) : TimerFires(r)

\* A timer that is armed fires: setTimeout needs nothing but the event loop.
PanelSpec ==
  /\ InitPanel
  /\ [][NextPanel]_vars
  /\ \A r \in 1..MaxReady :
       WF_vars(r \in 1..Len(webview.requests) /\ TimerFires(r))

(***************************************************************************)
(* A project with several component files: the search for the helper and   *)
(* wrapComponent calls that are in flight together                         *)
(***************************************************************************)
\* entry.name.toLowerCase()
lowerCase(str) == [k \in 1..Len(str) |-> toLowerCase(str[k])]

nodeModules == <<"n", "o", "d", "e", "_", "m", "o", "d", "u", "l", "e", "s">>
dotExpo == <<".", "e", "x", "p", "o">>

\* findWithProfilerFileRecursive: the directories the search does not enter.
skipsDirectory(dirName) ==
  \/ dirName \in {nodeModules, <<".", "g", "i", "t">>, <<".", "n", "e", "x", "t">>,
                  <<"d", "i", "s", "t">>, <<"b", "u", "i", "l", "d">>, dotExpo}
  \/ startsWith(dirName, <<".">>)

\* findWithProfilerFileRecursive: the file names the search accepts.
isWithProfilerFile(entryName) ==
  LET fileName == lowerCase(entryName)
      withprofiler == lowerCase(withProfilerName)
  IN  fileName \in {withprofiler \o sourceExtensions[k] : k \in 1..Len(sourceExtensions)}

\* A file the search can return: no directory on the way to it is skipped and
\* its name is accepted.  A path is the directories below the project root
\* followed by the file name.
located(filePath) ==
  /\ filePath # <<>>
  /\ \A k \in 1..(Len(filePath) - 1) : ~skipsDirectory(filePath[k])
  /\ isWithProfilerFile(filePath[Len(filePath)])

appDir == <<"a", "p", "p">>

\* Files of the project whose name or place suggests the helper.
HelperCandidates ==
  {<<withProfilerTsx>>,
   <<src, withProfilerTsx>>,
   <<src, ui, withProfilerName \o <<".", "t", "s">>>>,
   <<src, <<"W">> \o Tail(withProfilerName) \o <<".", "j", "s", "x">>>>,
   <<src, withProfilerName \o <<".", "T", "S", "X">>>>,
   <<nodeModules, withProfilerTsx>>,
   <<dotExpo, withProfilerTsx>>,
   <<src, <<"p", "r", "o", "f", "i", "l", "e", "r", ".", "t", "s", "x">>>>}

\* What findWithProfilerFile may return (<<>>: null).
LocatedHelpers == {<<>>} \cup {filePath \in HelperCandidates : located(filePath)}

\* path.dirname of the component files, below the project root.
ComponentDirs == {<<>>, <<src>>, <<src, ui>>, <<appDir>>}

\* The texts of the component files.
ComponentTexts ==
  {<<exportConst(Box, markupArrow)>>,
   <<ExportDefaultDeclaration(Identifier(Box))>>}

\* Mutant of importSourceAt: the transform uses the value the field held
\* before this call assigned it.
importSourceBeforeAssignment(previous, assigned) == previous

\* The value of this.withProfilerImportPath that wrapComponentWithAST reads
\* (line 428): the call assigns the field and runs the transform to its end
\* before it awaits.
importSourceAt(previous, assigned) == assigned

\* wrapComponent on a component file, lines 169-178: findWithProfilerFile
\* returns null.
WrapFileNoHelper(f, componentName) ==
  /\ helperFile = <<>>
  /\ done' = [NoCall EXCEPT !.componentName = componentName, !.stage = "noHelper"]
  /\ UNCHANGED <<disk, helperFile, withProfilerImportPath, inFlight, scan, files>>
  /\ UNCHANGED outsideWrapper

\* wrapComponent on a component file, lines 180-200: up to the await of
\* wrapComponentWithAST.
WrapFileBegin(f, componentName) ==
  /\ helperFile # <<>>
  /\ Len(inFlight) < MaxCalls
  /\ LET importPath == importPathFor(files[f].dir, helperFile)
         originalContent == files[f].content
         transformed ==
           wrapComponentWithAST(originalContent, componentName,
                                importSourceAt(withProfilerImportPath, importPath))
     IN  /\ withProfilerImportPath' = importPath
         /\ inFlight' = Append(inFlight,
              [file |-> f,
               componentName |-> componentName,
               originalContent |-> originalContent,
               transformedContent |-> transformed.result,
               wrappedCount |-> transformed.wrappedCount,
               threw |-> transformed.threw,
               importPath |-> importPath])
  /\ UNCHANGED <<disk, helperFile, done, scan, files>>
  /\ UNCHANGED outsideWrapper

\* wrapComponent on a component file, lines 202-208, for the call that awaited
\* first.
WrapFileEnd ==
  /\ inFlight # <<>>
  /\ LET call == Head(inFlight)
         out == writeIfChanged(call, files[call.file].content)
     IN  /\ files' = [files EXCEPT ![call.file].content = out.disk]
         /\ done' = [componentName |-> call.componentName, stage |-> out.stage,
                     returned |-> out.returned, wrappedCount |-> call.wrappedCount,
                     originalContent |-> call.originalContent,
                     transformedContent |-> call.transformedContent,
                     importPath |-> call.importPath]
  /\ inFlight' = Tail(inFlight)
  /\ UNCHANGED <<disk, helperFile, withProfilerImportPath, scan>>
  /\ UNCHANGED outsideWrapper

InitProject ==
  /\ disk = Text(<<>>, "source")
  /\ helperFile \in LocatedHelpers
  /\ withProfilerImportPath = <<>>
  /\ inFlight = <<>>
  /\ done = NoCall
  /\ scan = NoScan
  /\ files \in {<<[dir |-> dirs[1], content |-> Text(texts[1], "source")],
                  [dir |-> dirs[2], content |-> Text(texts[2], "source")]>> :
                  dirs \in {d \in ComponentDirs \X ComponentDirs : d[1] # d[2]},
                  texts \in ComponentTexts \X ComponentTexts}
  /\ IdleOutsideWrapper

NextProject ==
  \/ \E f \in 1..Len(files) : WrapFileNoHelper(f, Box)
  \/ \E f \in 1..Len(files) : WrapFileBegin(f, Box)
  \/ WrapFileEnd

\* One ComponentWrapper, two component files in different directories.
ProjectSpec == InitProject /\ [][NextProject]_vars

(***************************************************************************)
(* Properties                                                              *)
(***************************************************************************)
\* The last call to return went through wrapComponentWithAST.
Transformed == done.stage \in {"parseError", "noChange", "written", "writeFailed"}

\* A step in which the wrapComponent call that awaited first returns.
Returns == inFlight # <<>> /\ inFlight' = Tail(inFlight)

\* A statement list holds a wrap made for the name.
holdsWrapOf(stmts, name) ==
  \E k \in 1..Len(stmts) :
    \/ stmts[k] = wrappedExportOf(name)
    \/ /\ isType(stmts[k], "ExportDefaultDeclaration")
       /\ stmts[k].declaration = wrappedCallOf(Identifier(name), name)
    \/ /\ isType(stmts[k], "ExportNamedDeclaration")
       /\ isVariableDeclaration(stmts[k].declaration)
       /\ \E d \in 1..Len(stmts[k].declaration.declarations) :
            LET declarator == stmts[k].declaration.declarations[d]
            IN  /\ declarator.id.name = name
                /\ isAlreadyWrapped(declarator.init)

\* C1: applying wrapComponent a second time, with the same componentName, to
\* the text a first application produced wraps nothing (wrappedCount = 0),
\* yields no text, returns false and leaves the file as it is.
C1_Idempotent ==
  [][(/\ Returns
      /\ done.transformedContent.some
      /\ Head(inFlight).originalContent = done.transformedContent.code
      /\ Head(inFlight).componentName = done.componentName)
     => (/\ done'.wrappedCount = 0
         /\ ~done'.transformedContent.some
         /\ ~done'.returned
         /\ disk' = disk)]_vars

\* C1 witness: a call has returned that read text printed by the transformer
\* and holding a wrap of the call's own componentName, and that text is still
\* on disk.
C1_Witness ==
  /\ Transformed
  /\ done.originalContent.layout = "babel"
  /\ holdsWrapOf(done.originalContent.stmts, done.componentName)
  /\ disk = done.originalContent

\* C2: the file changes only in a step in which a wrapComponent call returns
\* true, and then it becomes the generated text, which holds at least one wrap
\* and differs from the text the call read; a call that returns false (file
\* missing, helper not found, parse error, no match, already wrapped, write
\* refused) leaves the file as it is.
C2_AllOrNothing ==
  [][/\ (disk' # disk =>
           /\ Returns
           /\ done'.returned
           /\ done'.stage = "written"
           /\ done'.wrappedCount > 0
           /\ done'.transformedContent.some
           /\ done'.transformedContent.code # done'.originalContent
           /\ disk' = done'.transformedContent.code)
     /\ (Returns /\ ~done'.returned => disk' = disk)
     /\ (Returns /\ done'.returned => disk' = done'.transformedContent.code)]_vars

\* C2 witness: a call that went through the transformation returned false and
\* the file holds what the call read.
C2_Witness ==
  /\ done.stage \in {"parseError", "noChange"}
  /\ ~done.returned
  /\ disk = done.originalContent
  /\ disk.stmts # <<>>

\* The statements of the text the last call read and of the text it generated.
before == done.originalContent.stmts
after == done.transformedContent.code.stmts

\* C3 (as claimed): after wrapping `export default function Name` or `export
\* default class Name`, the output still holds the declaration of Name, followed
\* by `export default withProfiler(Name, 'Name')`.
C3_DefaultDeclarationKept ==
  done.transformedContent.some =>
    \A k \in 1..Len(before) :
      (/\ isType(before[k], "ExportDefaultDeclaration")
       /\ \/ isFunctionDeclaration(before[k].declaration)
          \/ isClassDeclaration(before[k].declaration)
       /\ before[k].declaration.id # Null
       /\ before[k].declaration.id.name = done.componentName)
      => \E i, j \in 1..Len(after) :
           /\ i < j
           /\ after[i] = before[k].declaration
           /\ after[j] = ExportDefaultDeclaration(
                           wrappedCallOf(Identifier(done.componentName), done.componentName))

\* C4 (as claimed): after wrapping `export function Name`, the output holds the
\* function declaration without its export, and `export const Name =
\* withProfiler(Name, 'Name')` is the statement right after it.
C4_ExportRightAfterFunction ==
  done.transformedContent.some =>
    \A k \in 1..Len(before) :
      (/\ isType(before[k], "ExportNamedDeclaration")
       /\ isFunctionDeclaration(before[k].declaration)
       /\ before[k].declaration.id.name = done.componentName)
      => \E i \in 1..(Len(after) - 1) :
           /\ isFunctionDeclaration(after[i])
           /\ after[i].id = before[k].declaration.id
           /\ after[i].body = before[k].declaration.body
           /\ after[i + 1] = wrappedExportOf(done.componentName)

\* The positions of the imports that bind withProfiler.
withProfilerImports(stmts) ==
  {k \in 1..Len(stmts) :
     /\ isType(stmts[k], "ImportDeclaration")
     /\ \E sp \in 1..Len(stmts[k].specifiers) :
          stmts[k].specifiers[sp].local.name = withProfilerName}

\* C5 (as claimed): a text generated by a transform has exactly one import
\* that binds withProfiler, whatever module the input imported it from.
C5_OneImport ==
  done.transformedContent.some => Cardinality(withProfilerImports(after)) = 1

importsOf(stmts) == {k \in 1..Len(stmts) : isType(stmts[k], "ImportDeclaration")}

\* C6 (as claimed): an import the transform inserts is the first statement
\* when the input has no import, and otherwise comes right after the other
\* imports, with no import after it.
C6_ImportAfterLastImport ==
  (done.transformedContent.some /\ Cardinality(importsOf(after)) > Cardinality(importsOf(before)))
  => \E at \in importsOf(after) :
       /\ after[at] = withProfilerImportOf(done.importPath)
       /\ IF importsOf(before) = {} THEN at = 1
          ELSE /\ at > 1
               /\ at - 1 \in importsOf(after)
               /\ \A later \in importsOf(after) : later <= at

\* The detector reports the name for the text, under some file name.
reported(content, name) ==
  \E fileName \in FileNames :
    LET names == extractComponentsWithAST(content, 0, fileName).names
    IN  \E k \in 1..Len(names) : names[k] = name

\* C7 (as claimed): a transform for a name the detector does not report for
\* the file wraps nothing, returns false and leaves the file as it is.
C7_UnreportedNotWrapped ==
  (Transformed /\ ~reported(done.originalContent, done.componentName))
  => (done.wrappedCount = 0 /\ ~done.returned /\ ~done.transformedContent.some)

\* C8 (as claimed): every name the detector returns starts with an uppercase
\* letter.
C8_ReportedNamesUppercase ==
  \A k \in 1..Len(scan.names) : capturesUpperName(scan.names[k])

\* The statement declares or exports the name.
concerns(stmt, name) ==
  LET named(node) ==
        \/ /\ isFunctionDeclaration(node) \/ isClassDeclaration(node)
           /\ node.id # Null
           /\ node.id.name = name
        \/ /\ isVariableDeclaration(node)
           /\ \E d \in 1..Len(node.declarations) : node.declarations[d].id.name = name
  IN  IF isType(stmt, "ExportDefaultDeclaration")
        THEN \/ named(stmt.declaration)
             \/ stmt.declaration = Identifier(name)
             \/ /\ isAlreadyWrapped(stmt.declaration)
                /\ stmt.declaration.arguments[2] = StringLiteral(name)
      ELSE IF isType(stmt, "ExportNamedDeclaration") THEN named(stmt.declaration)
      ELSE named(stmt)

\* The statements that do not concern the name, in order.
frame(stmts, name) == SelectSeq(stmts, LAMBDA stmt : ~concerns(stmt, name))

\* The declarators of other names in the exported variable declarations.
otherDeclarators(stmts, name) ==
  SelectSeq(
    [k \in 1..Len(stmts) |->
       IF isType(stmts[k], "ExportNamedDeclaration")
            /\ isVariableDeclaration(stmts[k].declaration)
         THEN SelectSeq(stmts[k].declaration.declarations,
                        LAMBDA declarator : declarator.id.name # name)
         ELSE <<>>],
    LAMBDA others : others # <<>>)

removeAt(stmts, at) == SubSeq(stmts, 1, at - 1) \o SubSeq(stmts, at + 1, Len(stmts))

\* C9: the text a transform generates differs from the text it read only in
\* the statements that declare or export componentName and in one inserted
\* import: every other statement, and every declarator of another name, is
\* there unchanged and in the same order.
C9_Conservation ==
  done.transformedContent.some =>
    /\ \/ frame(after, done.componentName) = frame(before, done.componentName)
       \/ \E at \in 1..Len(after) :
            /\ after[at] = withProfilerImportOf(done.importPath)
            /\ frame(removeAt(after, at), done.componentName)
                 = frame(before, done.componentName)
    /\ otherDeclarators(after, done.componentName)
         = otherDeclarators(before, done.componentName)
    /\ Len(after) <= Len(before) + done.wrappedCount + 1

\* C9 witness: a transform has wrapped a declaration in a file that holds a
\* statement of another name after it.
C9_Witness ==
  /\ done.stage = "written"
  /\ frame(before, done.componentName) # <<>>
  /\ \E k \in 1..(Len(before) - 1) :
       /\ concerns(before[k], done.componentName)
       /\ ~concerns(before[k + 1], done.componentName)
       /\ before[k] # after[k]

\* C10 (as claimed): one transform wraps at most one declaration.
C10_AtMostOneWrap == done.wrappedCount <= 1

\* The statement exports the name.
exportedUnder(stmt, name) ==
  /\ isType(stmt, "ExportDefaultDeclaration") \/ isType(stmt, "ExportNamedDeclaration")
  /\ concerns(stmt, name)

\* The value the statement exports under the name is a call of withProfiler.
exportsWrapped(stmt, name) ==
  IF isType(stmt, "ExportDefaultDeclaration")
    THEN /\ isAlreadyWrapped(stmt.declaration)
         /\ stmt.declaration.arguments[2] = StringLiteral(name)
  ELSE /\ isType(stmt, "ExportNamedDeclaration")
       /\ isVariableDeclaration(stmt.declaration)
       /\ \A d \in 1..Len(stmt.declaration.declarations) :
            stmt.declaration.declarations[d].id.name = name
              => isAlreadyWrapped(stmt.declaration.declarations[d].init)

\* The text exports the name, and every value it exports under the name is
\* already a call of withProfiler.
AlreadyWrapped(content, name) ==
  /\ \E k \in 1..Len(content.stmts) : exportedUnder(content.stmts[k], name)
  /\ \A k \in 1..Len(content.stmts) :
       exportedUnder(content.stmts[k], name) => exportsWrapped(content.stmts[k], name)

\* What wrapComponentWithAST resolves to when the file has no declaration of
\* the name.
NoMatchingDeclaration(name, importPath) ==
  wrapComponentWithAST(Text(<<>>, "source"), name, importPath).result

\* C11: when every value the file exports under componentName is already a
\* call of withProfiler, wrapComponent wraps nothing, writes nothing and returns
\* false, with the very result (null) of a transform that finds no declaration
\* of the name.
C11_AlreadyWrappedIsNoMatch ==
  [][(Returns /\ AlreadyWrapped(Head(inFlight).originalContent,
                                 Head(inFlight).componentName))
     => (/\ done'.wrappedCount = 0
         /\ done'.transformedContent
              = NoMatchingDeclaration(done'.componentName, done'.importPath)
         /\ ~done'.returned
         /\ disk' = disk)]_vars

\* C11 witness: a call has returned whose file exported, as its author wrote
\* it, `export default withProfiler(Name, 'Name')` for the call's componentName.
C11_Witness ==
  /\ Transformed
  /\ done.originalContent.layout = "source"
  /\ AlreadyWrapped(done.originalContent, done.componentName)
  /\ \E k \in 1..Len(before) :
       before[k] = ExportDefaultDeclaration(
                     wrappedCallOf(Identifier(done.componentName), done.componentName))

\* The text holds the statement `export default Name`.
hasExportDefaultOf(stmts, name) ==
  \E k \in 1..Len(stmts) : stmts[k] = ExportDefaultDeclaration(Identifier(name))

\* C12 (as claimed): when the parse of the file throws and the text holds
\* `export default Name` for componentName, the transformer falls back to
\* textual replacement: the call yields a text holding
\* `export default withProfiler(Name, 'Name')` and returns true.
C12_ParseFailureFallsBack ==
  (done.stage = "parseError" /\ hasExportDefaultOf(before, done.componentName))
  => (/\ done.returned
      /\ done.transformedContent.some
      /\ holdsWrapOf(after, done.componentName))

\* What the AST path or, when the parse throws, the regex path finds in the
\* text, whatever the size of the file.
unlimitedScan(content, fileName) ==
  IF parseRecovering(content).threw
    THEN [names |-> extractComponentsFallback(content), via |-> "fallback"]
    ELSE [names |-> setOrder(flatten([k \in 1..Len(content.stmts) |->
                                        componentsOf(content.stmts[k], fileName)]), <<>>),
          via |-> "ast"]

\* C13: a scan of a file of more than 500 KB returns the empty list and takes
\* neither the AST path nor the regex path; a scan of a file of at most 500 KB
\* returns what the AST path or the regex path finds in the text.
C13_Oversize ==
  scan.via # "none" =>
    IF scan.size > 500 * 1024
      THEN scan.names = <<>> /\ scan.via = "skipped"
      ELSE /\ scan.via = unlimitedScan(disk, scan.fileName).via
           /\ scan.names = unlimitedScan(disk, scan.fileName).names

\* C13 witness: a file of 2 MB that exports a component has been scanned.
C13_Witness ==
  /\ scan.via = "skipped"
  /\ scan.size = 2097152
  /\ unlimitedScan(disk, scan.fileName).names # <<>>

\* The statement is `export function Name(...) {}`.
isExportedFunction(stmt) ==
  /\ isType(stmt, "ExportNamedDeclaration")
  /\ isFunctionDeclaration(stmt.declaration)

\* C14 (as claimed): a scan that fell back to the textual patterns reports
\* every `export function Name` of the file whose Name starts with an
\* uppercase letter.
C14_FallbackReportsFunctions ==
  scan.via = "fallback" =>
    \A k \in 1..Len(disk.stmts) :
      (isExportedFunction(disk.stmts[k])
         /\ capturesUpperName(disk.stmts[k].declaration.id.name))
      => \E n \in 1..Len(scan.names) : scan.names[n] = disk.stmts[k].declaration.id.name

\* C15 (as claimed): the list a scan returns never holds the same name twice,
\* on the AST path and on the regex path alike.
C15_NoDuplicateNames ==
  \A a, b \in 1..Len(scan.names) : a # b => scan.names[a] # scan.names[b]

\* C16 (as claimed): when the loop of wrapComponents is over, the message it
\* shows gives the number of successes and the number of failures, whatever
\* the two counts are (a count of zero may be left out).
C16_ReportsBothCounts ==
  (batch.stage = "reported" /\ batch.components # <<>>)
  => /\ batch.successCount > 0
          => \E k \in 1..Len(batch.shown.counts) : batch.shown.counts[k] = batch.successCount
     /\ batch.failCount > 0
          => \E k \in 1..Len(batch.shown.counts) : batch.shown.counts[k] = batch.failCount

\* What the claim asks of a body: an object with a non-empty id, one of the
\* three phases and a numeric actualDuration.
wellFormed(body) ==
  /\ body.t = "object"
  /\ body.id.t = "string" /\ body.id.chars # <<>>
  /\ body.phase \in {Str(mount), Str(update), Str(forceUpdate)}
  /\ body.actualDuration.t = "number"

\* C19: a POST /profile-data is answered 200 and appends exactly one entry,
\* the body it carried, at the end of the log list if and only if the body is
\* an object with a non-empty id, a phase in {mount, update, force-update} and
\* a numeric actualDuration; otherwise it is answered 400 and the log list is
\* unchanged.  totalLogs and the logsCount of /health are the length of the
\* log list, which only clearLogs empties.
C19_StoredIffValid ==
  [][\A s \in 1..Len(servers) :
       /\ Len(servers'[s].logs) > Len(servers[s].logs) =>
            /\ exchange'.route = "POST /profile-data"
            /\ wellFormed(exchange'.body)
            /\ exchange'.status = 200
            /\ Len(servers'[s].logs) = Len(servers[s].logs) + 1
            /\ SubSeq(servers'[s].logs, 1, Len(servers[s].logs)) = servers[s].logs
            /\ servers'[s].logs[Len(servers'[s].logs)].id = exchange'.body.id
            /\ servers'[s].logs[Len(servers'[s].logs)].phase = exchange'.body.phase
            /\ exchange'.count = Len(servers'[s].logs)
       /\ (exchange' # exchange /\ exchange'.route = "POST /profile-data"
             /\ wellFormed(exchange'.body)) =>
            exchange'.status = 200 /\ (\E z \in 1..Len(servers) : servers'[z] # servers[z])
       /\ (exchange' # exchange /\ exchange'.route = "POST /profile-data"
             /\ ~wellFormed(exchange'.body)) =>
            exchange'.status = 400 /\ servers' = servers
       /\ (exchange' # exchange /\ exchange'.route = "GET /health") =>
            /\ servers' = servers
            /\ \E z \in 1..Len(servers) : exchange'.count = Len(servers[z].logs)
       /\ Len(servers'[s].logs) < Len(servers[s].logs) =>
            servers'[s].logs = <<>> /\ exchange' = exchange]_vars

\* C19 witness: the server holds an accepted log, and the last request, whose
\* phase is outside the three known ones, was rejected with 400.
C19_Witness ==
  /\ Len(servers) = 1
  /\ Len(servers[1].logs) = 1
  /\ exchange.route = "POST /profile-data"
  /\ exchange.status = 400
  /\ exchange.body.t = "object"
  /\ exchange.body.phase = Str(unmount)
  /\ exchange.body.id = Str(Box)
  /\ exchange.body.actualDuration = Num(12)

\* C20 (as claimed): every profile log the app posts comes from a component
\* whose name is in COMPONENTS_TO_PROFILE, with PROFILING_ENABLED true; with
\* an empty list nothing is posted.
C20_OnlySelectedSend ==
  \A k \in 1..Len(app.posted) :
    /\ rnConfig.enabled
    /\ listed(rnConfig.components, app.posted[k].id.chars)

\* C17: when no recording is in progress and no start or stop command is still
\* executing, the content last written to rn-profiler-config.ts has
\* PROFILING_ENABLED = false.
C17_StoppedMeansDisabled ==
  (/\ profilerServer = 0
   /\ \A i \in 1..Len(commands) : commands[i].kind \notin {"start", "stop"})
    => ~rnConfig.enabled

\* C18: an analyzeLogs command that runs after a recording was stopped with
\* at least one accepted log, and before another is started, analyzes exactly
\* the logs that recording collected.
C18_LogsSurviveStop ==
  (analysis.result # "none" /\ ~analysis.recording /\ Len(analysis.collected) > 0)
    => (analysis.result = "analyzed" /\ analysis.logs = analysis.collected)

\* The names the module binds to a call of withProfiler other than the given
\* call.
boundToWrap(stmts, call) ==
  {name \in {Box, Row, help} :
     \E k \in 1..Len(stmts) :
       LET node == IF isType(stmts[k], "ExportNamedDeclaration")
                     THEN stmts[k].declaration ELSE stmts[k]
       IN  /\ isVariableDeclaration(node)
           /\ \E d \in 1..Len(node.declarations) :
                /\ node.declarations[d].id.name = name
                /\ isAlreadyWrapped(node.declarations[d].init)
                /\ node.declarations[d].init # call}

\* The calls of withProfiler the module exports.
exportedWraps(stmts) ==
  {stmts[k].declaration :
     k \in {j \in 1..Len(stmts) : /\ isType(stmts[j], "ExportDefaultDeclaration")
                                  /\ isAlreadyWrapped(stmts[j].declaration)}}
  \cup
  UNION {{stmts[k].declaration.declarations[d].init :
            d \in {e \in 1..Len(stmts[k].declaration.declarations) :
                     isAlreadyWrapped(stmts[k].declaration.declarations[e].init)}} :
           k \in {j \in 1..Len(stmts) : /\ isType(stmts[j], "ExportNamedDeclaration")
                                        /\ isVariableDeclaration(stmts[j].declaration)}}

\* The exported calls of withProfiler whose argument is itself the result of
\* withProfiler: a nested call, or an identifier the module binds to a call.
wrapsOfWraps(stmts) ==
  {call \in exportedWraps(stmts) :
     \/ isAlreadyWrapped(call.arguments[1])
     \/ /\ isIdentifier(call.arguments[1])
        /\ call.arguments[1].name \in boundToWrap(stmts, call)}

\* C21 (as claimed): the text a transform writes applies withProfiler to a
\* result of withProfiler only where the text it read already did.
C21_NoDuplicatedWraps ==
  done.stage = "written"
    => wrapsOfWraps(done.transformedContent.code.stmts)
         \subseteq wrapsOfWraps(done.originalContent.stmts)

\* C22 (as claimed): the module a transform writes declares no identifier
\* twice at its top level.
C22_NoRedeclaration ==
  done.stage = "written" => ~hasRedeclaration(done.transformedContent.code.stmts)

RECURSIVE ownNodes(_)
\* The nodes of a function body that belong to the function itself: nested
\* blocks are entered, nested functions and classes are not.
ownNodes(node) ==
  IF \/ isFunctionDeclaration(node) \/ isFunctionExpression(node)
     \/ isArrowFunctionExpression(node) \/ isClassDeclaration(node)
    THEN <<>>
  ELSE LET kids == childrenOf(node)
       IN  <<node>> \o flatten([k \in 1..Len(kids) |-> ownNodes(kids[k])])

\* Renderable markup: a JSX element, a JSX fragment or React.createElement(...).
isMarkup(node) ==
  \/ isJSXElement(node)
  \/ isType(node, "JSXFragment")
  \/ /\ isCallExpression(node)
     /\ node.callee =
          MemberExpression(Identifier(React),
                           Identifier(<<"c", "r", "e", "a", "t", "e", "E", "l", "e", "m", "e", "n", "t">>))

\* The scan of a function body the classification is described by: one of its
\* own return statements returns markup.
ownReturnYieldsMarkup(block) ==
  \E k \in 1..Len(ownNodes(block)) :
    /\ isType(ownNodes(block)[k], "ReturnStatement")
    /\ ownNodes(block)[k].argument # Null
    /\ isMarkup(ownNodes(block)[k].argument)

hasOwnReturn(block) ==
  \E k \in 1..Len(ownNodes(block)) : isType(ownNodes(block)[k], "ReturnStatement")

\* The name is among the names the last scan returned.
scanned(name) == \E k \in 1..Len(scan.names) : scan.names[k] = name

\* The statement at position k is the only one of the file that declares or
\* exports the name.
soleSourceOf(stmts, k, name) ==
  \A j \in 1..Len(stmts) : j # k => ~concerns(stmts[j], name)

\* C23 (as claimed): an exported function declaration with an uppercase-initial
\* name is reported if and only if one of its own return statements returns
\* markup or its body has no return statement.
C23_FunctionClassification ==
  scan.via = "ast" =>
    \A k \in 1..Len(disk.stmts) :
      LET stmt == disk.stmts[k]
      IN  (/\ isType(stmt, "ExportDefaultDeclaration") \/ isType(stmt, "ExportNamedDeclaration")
           /\ isFunctionDeclaration(stmt.declaration)
           /\ stmt.declaration.id # Null
           /\ startsUpperCase(stmt.declaration.id.name)
           /\ soleSourceOf(disk.stmts, k, stmt.declaration.id.name))
          => (scanned(stmt.declaration.id.name)
                <=> \/ ownReturnYieldsMarkup(stmt.declaration.body)
                    \/ ~hasOwnReturn(stmt.declaration.body))

\* The initializer is a call of memo, forwardRef or lazy, as a bare identifier
\* or as the property of a member access.
isDecoratingCall(init) ==
  /\ isCallExpression(init)
  /\ \/ isIdentifier(init.callee) /\ init.callee.name \in decoratingHelpers
     \/ /\ isMemberExpression(init.callee)
        /\ isIdentifier(init.callee.property)
        /\ init.callee.property.name \in decoratingHelpers

\* The initializer is a function or arrow expression that returns markup: as
\* its expression body, or from one of its own return statements.
functionYieldsMarkup(init) ==
  /\ isArrowFunctionExpression(init) \/ isFunctionExpression(init)
  /\ IF isBlockStatement(init.body) THEN ownReturnYieldsMarkup(init.body)
     ELSE isMarkup(init.body)

\* C24 (as claimed): `export const X = init` with an uppercase-initial X is
\* reported if and only if init is a function or arrow expression returning
\* markup, or a call of memo, forwardRef or lazy.
C24_VariableClassification ==
  scan.via = "ast" =>
    \A k \in 1..Len(disk.stmts) :
      LET stmt == disk.stmts[k]
      IN  (/\ isType(stmt, "ExportNamedDeclaration")
           /\ isVariableDeclaration(stmt.declaration)
           /\ Len(stmt.declaration.declarations) = 1
           /\ startsUpperCase(stmt.declaration.declarations[1].id.name)
           /\ stmt.declaration.declarations[1].init # Null
           /\ soleSourceOf(disk.stmts, k, stmt.declaration.declarations[1].id.name))
          => (scanned(stmt.declaration.declarations[1].id.name)
                <=> \/ functionYieldsMarkup(stmt.declaration.declarations[1].init)
                    \/ isDecoratingCall(stmt.declaration.declarations[1].init))

\* The module specifiers wrapComponent has computed: for the calls in flight
\* and for the call that returned last.
computedImportPaths ==
  {inFlight[i].importPath : i \in 1..Len(inFlight)}
  \cup (IF Transformed THEN {done.importPath} ELSE {})

\* C25 (as claimed): the module specifier computed for a component file and
\* the located helper begins with ./ or ../, holds no backslash and does not
\* end with the extension of the helper file.
C25_ImportPathShape ==
  \A importPath \in computedImportPaths :
    /\ startsWith(importPath, <<".", "/">>) \/ startsWith(importPath, <<".", ".", "/">>)
    /\ \A k \in 1..Len(importPath) : importPath[k] # "\\"
    /\ ~endsWith(importPath, extname(helperFile[Len(helperFile)]))

\* The module paths of the withProfiler imports in a text.
withProfilerSources(content) ==
  {content.stmts[k].source.value : k \in withProfilerImports(content.stmts)}

\* C28: the import inserted into a component file names the path computed
\* from that file's own directory, in the text each call in flight holds and
\* in every file written, whatever the shared field withProfilerImportPath
\* holds by then.
C28_OwnImportPath ==
  /\ \A i \in 1..Len(inFlight) :
       inFlight[i].transformedContent.some =>
         withProfilerSources(inFlight[i].transformedContent.code)
           = {importPathFor(files[inFlight[i].file].dir, helperFile)}
  /\ \A f \in 1..Len(files) :
       files[f].content.layout = "babel" =>
         withProfilerSources(files[f].content)
           = {importPathFor(files[f].dir, helperFile)}

\* C28 witness: two calls for files in different directories are in flight,
\* both have inserted an import, the two paths differ, and the shared field
\* no longer holds the path of the call that awaited first.
C28_Witness ==
  /\ Len(inFlight) = 2
  /\ inFlight[1].file # inFlight[2].file
  /\ files[inFlight[1].file].dir # files[inFlight[2].file].dir
  /\ inFlight[1].transformedContent.some /\ inFlight[2].transformedContent.some
  /\ inFlight[1].importPath # inFlight[2].importPath
  /\ withProfilerImportPath # inFlight[1].importPath

\* C26 (as claimed): the write of rn-profiler-config.ts made for a
\* selectComponents message leaves PROFILING_ENABLED as it was.
C26_SelectionKeepsEnabled ==
  [][(\E i \in 1..Len(commands) :
        /\ commands[i].kind = "select"
        /\ commands[i].pc = "write"
        /\ commands' = returned(i)
        /\ rnConfig' # rnConfig)
     => rnConfig'.enabled = rnConfig.enabled]_vars

\* C27: every 'ready' message is answered by exactly one componentTree
\* message. While the scan runs and the timer is armed nothing has been sent;
\* once either has settled exactly one message has been sent, the scanned
\* tree when the scan resolved first and the empty tree when the scan threw or
\* the timer fired first; and a 'ready' message does not stay unanswered.
answeredOnce(request) ==
  /\ request.race = "pending" <=> (request.scan = "running" /\ request.timer = "armed")
  /\ request.race = "pending" => request.responses = <<>>
  /\ request.race = "fulfilled" =>
       /\ request.scan = "resolved"
       /\ request.responses = <<componentTree(request.tree)>>
  /\ request.race = "rejected" =>
       /\ request.scan = "rejected" \/ request.timer = "fired"
       /\ request.responses = <<componentTree(<<>>)>>

C27_OneComponentTree ==
  /\ [](\A r \in 1..Len(webview.requests) : answeredOnce(webview.requests[r]))
  /\ \A r \in 1..MaxReady :
       (r <= Len(webview.requests)) ~>
         (r <= Len(webview.requests) /\ Len(webview.requests[r].responses) = 1)

\* C27, its case: the timer fired first and the empty tree was sent, the scan
\* resolved with a tree afterwards, and still one message has been sent.
C27_Witness ==
  \E r \in 1..Len(webview.requests) :
    /\ webview.requests[r].scan = "resolved"
    /\ webview.requests[r].tree # <<>>
    /\ webview.requests[r].timer = "fired"
    /\ webview.requests[r].race = "rejected"
    /\ Len(webview.requests[r].responses) = 1

\* C30: the extension's profilerPanel reference and ProfilerPanel.currentPanel
\* agree on whether a live panel exists: profilerPanel is defined exactly
\* when currentPanel is, and the panel they name has not been disposed, so
\* that reveal, sendMessage and setServer never reach a disposed panel and a
\* Show Profiler Panel command after a close creates a panel.
C30_ReferencesAgree ==
  /\ profilerPanel.open <=> currentPanel # 0
  /\ profilerPanel.open => ~webview.disposed

\* C29: single recording. A server that listens is the one profilerServer
\* names, so at most one server is started and not stopped; no step taken
\* while profilerServer is set constructs a server; and a startRecording
\* command issued while profilerServer is set, also while the earlier
\* startRecording still awaits 'listening', changes neither the servers and
\* their logs, the server reference, the config file nor anything else.
C29_SingleRecording ==
  /\ [](\A s \in 1..Len(servers) : servers[s].listening => profilerServer = s)
  /\ [][profilerServer # 0 => Len(servers') = Len(servers)]_vars
  /\ [][(profilerServer # 0 /\ \E binds \in BOOLEAN : StartRecording(binds))
        => UNCHANGED <<servers, profilerServer, profilerPanel, rnConfig, commands,
                       stopped>>]_vars

\* C29, its case: a startRecording command awaits 'listening' for the server
\* it constructed, which profilerServer names; a second startRecording
\* command in this state leaves it as it is.
C29_Witness ==
  \E i \in 1..Len(commands) :
    /\ commands[i].kind = "start"
    /\ commands[i].pc = "listen"
    /\ profilerServer = commands[i].server
    /\ servers[profilerServer].listening
    /\ ENABLED (\E binds \in BOOLEAN : StartRecording(binds))

====
